---- MODULE Spec2Model ----
(***************************************************************************)
(* Strategy-execution core of DazedTrader: RiskManager, OrderManager and   *)
(* StrategyRunner.                                                         *)
(*                                                                         *)
(* Money and asset amounts are integers (fixed point).  Wall-clock time is *)
(* an integer number of units; one day is DayLen units, so that            *)
(* t.Truncate(24 * time.Hour) is (t \div DayLen) * DayLen.                 *)
(***************************************************************************)
EXTENDS Integers, Sequences, FiniteSets, TLC

----------------------------------------------------------------------------
(* Bounds of the exploration *)

MaxTime == 3
MaxRiskTime == 5
MaxRecords == 3
MaxOrders == 4
MaxSubmits == 2
MaxFetches == 2
MaxTicks == 3
MaxQueued == 1

\* PerformanceMetrics: the last instant, and the calls of UpdatePortfolioValue
MaxMetricsTime == 8
MaxUpdates == 3

\* the strategies: the ticks fed, the calls of Stop and Reset, the last
\* instant, and the longest wait of a tick
MaxStrategyTicks == 6
MaxStrategyOps == 1
MaxStrategyTime == 2
MaxCooldownTime == 5
MaxLag == 1
MaxEarlyStops == 1

----------------------------------------------------------------------------
(* Program constants and configuration *)

\* 24 * time.Hour, in time units
DayLen == 4

\* signal.Confidence < 0.5, in percent
ConfidenceFloor == 50

\* stopLossPercent := -2.0 and minProfitPercent := 0.5 of executeSellSignal,
\* in hundredths of a percent
StopLossBp == 200
MinProfitBp == 50

\* time.Minute of checkAndUpdateOrder and EngineConfig.OrderTimeout, in time
\* units (durations keep their order, not their ratio)
Minute == 1
OrderTimeout == 3
ChanCap == 1
PriceChanCap == 2

\* PerformanceMetrics: the starting capital, the cap of the history of daily
\* returns, the returns the risk metrics need
InitialCapital == 10000
MaxDailyReturns == 252
MinRiskDays == 30

\* the values of the portfolio, and the ages in days of the PerformanceMetrics
PortfolioValues == {8000, 10000, 12500}
PastDays == {0, MaxDailyReturns - 1}

\* the zero time.Time, long before any tick
ZeroTime == -1000

\* RiskLimits of the strategy configuration
MaxDailyTrades == 3
MaxDailyLoss == 6
MaxPositionSize == 450
CooldownPeriod == 1

Limits ==
  [MaxPositionSize |-> MaxPositionSize, MaxDailyTrades |-> MaxDailyTrades,
   MaxDailyLoss |-> MaxDailyLoss, CooldownPeriod |-> CooldownPeriod,
   StopLossPercent |-> 2]

Strategies == {"ma", "scalp"}

SignalBuy == "BUY"
SignalSell == "SELL"
SignalHold == "HOLD"
SignalTypes == {SignalBuy, SignalSell, SignalHold}

Prices == {196, 200, 201}
Confidences == {40, 50}
Quantities == {1, 2}

NoSignal == [Type |-> "none", Quantity |-> 0, Price |-> 0, Confidence |-> 0, Timestamp |-> 0]

Signals(t) ==
  [Type : SignalTypes, Quantity : Quantities, Price : Prices,
   Confidence : Confidences, Timestamp : {t}]

\* t.Truncate(24 * time.Hour)
Truncate24h(t) == (t \div DayLen) * DayLen

\* the calendar day (UTC) an instant belongs to
Day(t) == t \div DayLen
Days == 0..Day(MaxRiskTime + 1)

\* the runner whose position and trades are followed in detail
Runner == "ma"

\* Position{Symbol: config.Symbol}
\* (MarketValue, UnrealizedPnL and OpenTime are written for display only: no
\* code path reads them back, and they are left out)
FlatPosition == [Quantity |-> 0, AveragePrice |-> 0]

NoTrade ==
  [ID |-> 0, Side |-> "none", Quantity |-> 0, Price |-> 0, Timestamp |-> 0, PnL |-> 0,
   Commission |-> 0]

\* the zero PriceTick
NoTick == [Price |-> 0, Timestamp |-> 0]

\* the goroutine of Run holds nothing
NoHand == [tick |-> NoTick, signal |-> NoSignal, trade |-> NoTrade]

\* what the brokerage may answer to a market order for quantity q when the
\* quoted price is p: an error, an order accepted and not filled yet, or the
\* order filled at the quoted price
Responses(q, p) ==
  {[err |-> TRUE, State |-> "", FilledAssetQuantity |-> 0, AveragePrice |-> 0],
   [err |-> FALSE, State |-> "open", FilledAssetQuantity |-> 0, AveragePrice |-> 0],
   [err |-> FALSE, State |-> "filled", FilledAssetQuantity |-> q, AveragePrice |-> p]}

VARIABLES
  position,         \* StrategyRunner.position
  trades,           \* StrategyRunner.trades
  pnl,              \* StrategyRunner.pnl
  state,            \* StrategyRunner.state (Position, TradesCount, PnL)
  lastSignal,       \* StrategyRunner.state.LastSignal
  isRunning,        \* StrategyRunner.isRunning, per runner
  pendingOrders,    \* OrderManager.pendingOrders
  completedOrders,  \* OrderManager.completedOrders
  monitors,         \* the monitorOrder goroutines, by order id: where each is,
                    \* and when it started its timeout
  cancelTasks,      \* ids of the goroutines CancelAllOrders started and that
                    \* have not run yet
  stopChan,         \* StrategyRunner.stopChan, per runner: "open" or "closed"
  emergency,        \* history: whether the emergency stop was issued, and the
                    \* ids pending when it was
  nextOrderId,      \* brokerage: the id the next accepted order gets
  broker,           \* brokerage: the requests it has received, in order
  now,              \* time.Now()
  dailyTradeCount,  \* RiskManager.dailyTradeCount (a missing key reads 0)
  dailyLoss,        \* RiskManager.dailyLoss
  lastResetTime,    \* RiskManager.lastResetTime
  rmCall,           \* history: the last call a client made on the RiskManager's
                    \* interface directly, and what it returned
  rmLog,            \* history: per strategy and day, the trades such a client
                    \* handed to RecordTrade on that day (number and losses)
  pf,               \* PriceFeed: isRunning, stopChan, lastTick, subscribers
  pfLoops,          \* the goroutines running PriceFeed.Start, in the order they
                    \* were started: where each is, and the tick and the
                    \* copy of the subscribers it is broadcasting
  chans,            \* the subscribers' channels: the ticks queued in each
  ctxDone,          \* whether the context handed to Start and Run is cancelled
  pfCycles,         \* history: the result of each fetch of the feed, in order
  priceChan,        \* StrategyRunner.priceChan: the ticks queued
  signalChan,       \* StrategyRunner.signalChan: the signals queued
  mu,               \* StrategyRunner.mu: "free", or "run" while the goroutine of
                    \* Run holds it exclusively
  runPc,            \* where the goroutine of Run is: at its "select", in
                    \* processPriceTick ("tick"), or in executeBuySignal or
                    \* executeSellSignal on the queued-signal path, before the
                    \* append to the trade log ("append") or before
                    \* TradesCount++ ("count")
  hand,             \* what that goroutine holds: the tick, or the signal and
                    \* the trade
  strategyStops,    \* the number of calls of the strategy's Stop
  offered,          \* history: the number of calls of ProcessPriceTick
  enqueued,         \* history: the ticks that entered priceChan, in order
  handed,           \* history: the ticks handed to the strategy, in order
  rmTasks,          \* the calls in progress on the shared RiskManager, one per
                    \* runner: where the call is, and the locals of
                    \* resetDailyCountersIfNeeded
  vsCall,           \* a call of ValidateSignal: its arguments, when it was made
                    \* and what it returned
  pm,               \* a PerformanceMetrics
  pmFed,            \* history: the values given to UpdatePortfolioValue, in order
  pmCalls,          \* history: the number of those calls since the start
  mas,              \* a MovingAverageStrategy
  ss,               \* a ScalpingStrategy
  ms,               \* a MomentumStrategy
  stratOut,         \* history: per strategy, what its last ProcessTick was
                    \* given and returned, and when
  masEmitted,       \* history: the signals of the MovingAverageStrategy since
                    \* its last Reset, each with the time it was emitted at
  stratFed,         \* history: the number of ticks fed to the strategies
  stratOps,         \* history: the number of calls of Stop and Reset
  initCall,         \* history: the config Initialize is called with, and
                    \* per strategy what its Initialize returned
  earlyStops        \* history: the calls of Stop() on the runner that
                    \* returned before its Run had marked it running

riskVars == <<dailyTradeCount, dailyLoss, lastResetTime>>

engineVars == <<cancelTasks, stopChan, emergency>>

feedVars == <<pf, pfLoops, chans, ctxDone, pfCycles>>

loopVars ==
  <<priceChan, signalChan, mu, runPc, hand, strategyStops, offered, enqueued, handed>>

metricVars == <<pm, pmFed, pmCalls>>

\* the objects that are exercised apart from the runner
strategyVars == <<mas, ss, ms, stratOut, masEmitted, stratFed, stratOps, initCall>>

launchVars == <<earlyStops>>

soloVars == <<metricVars, strategyVars, launchVars>>

moreVars == <<feedVars, loopVars, rmTasks, vsCall, soloVars>>

runnerVars ==
  <<position, trades, pnl, state, lastSignal, isRunning, pendingOrders, completedOrders,
    monitors, nextOrderId, broker, cancelTasks, stopChan, emergency, moreVars>>

----------------------------------------------------------------------------
(* RiskManager *)

EmptyCounters == [s \in Strategies |-> 0]

\* a reset check that never finds a new day
ResetNever(t, last) == FALSE

\* resetDailyCountersIfNeeded: whether the counters are cleared by a call at t
ResetNeeded(t, last) == Truncate24h(t) > last

CountersAfterReset(t, last, counters) ==
  IF ResetNeeded(t, last) THEN EmptyCounters ELSE counters

LastResetAfter(t, last) ==
  IF ResetNeeded(t, last) THEN Truncate24h(t) ELSE last

\* a limit check that lets the count reach the limit
LimitExceeded(count, limit) == count > limit

\* the daily limit checks of ValidateSignal: count >= limit rejects
LimitReached(count, limit) == count >= limit

ValidateSignalCooldownStrict(signal, limits, name, positionQty, last, count, loss, t) ==
  /\ ~LimitReached(count[name], limits.MaxDailyTrades)
  /\ ~LimitReached(loss[name], limits.MaxDailyLoss)
  /\ signal.Type = SignalBuy =>
       /\ ~(signal.Quantity * signal.Price > limits.MaxPositionSize)
       /\ ~(positionQty * signal.Price + signal.Quantity * signal.Price
              > limits.MaxPositionSize)
  /\ last.Type # "none" => ~(t - last.Timestamp <= limits.CooldownPeriod)
  /\ ~(signal.Confidence < ConfidenceFloor)

\* ValidateSignal, on the counters as they are after the lazy reset
ValidateSignal(signal, limits, name, positionQty, last, count, loss, t) ==
  /\ ~LimitReached(count[name], limits.MaxDailyTrades)
  /\ ~LimitReached(loss[name], limits.MaxDailyLoss)
  /\ signal.Type = SignalBuy =>
       /\ ~(signal.Quantity * signal.Price > limits.MaxPositionSize)
       /\ ~(positionQty * signal.Price + signal.Quantity * signal.Price
              > limits.MaxPositionSize)
  /\ last.Type # "none" => ~(t - last.Timestamp < limits.CooldownPeriod)
  /\ ~(signal.Confidence < ConfidenceFloor)

\* ShouldStopStrategy, on the counters as they are after the lazy reset
ShouldStopStrategy(name, limits, currentPnL, loss) ==
  \/ LimitReached(loss[name], limits.MaxDailyLoss)
  \/ /\ limits.StopLossPercent > 0 /\ currentPnL < 0
     /\ -currentPnL >= limits.MaxDailyLoss

RECURSIVE SumOver(_, _)
SumOver(f, S) ==
  IF S = {} THEN 0 ELSE LET x == CHOOSE y \in S : TRUE IN f[x] + SumOver(f, S \ {x})

\* history: the number of RecordTrade calls made so far
Recorded ==
  SumOver([p \in Strategies \X Days |-> rmLog[p[1]][p[2]].count], Strategies \X Days)

RiskReset ==
  /\ dailyTradeCount' = CountersAfterReset(now, lastResetTime, dailyTradeCount)
  /\ dailyLoss' = CountersAfterReset(now, lastResetTime, dailyLoss)
  /\ lastResetTime' = LastResetAfter(now, lastResetTime)

Tick ==
  /\ now < MaxRiskTime
  /\ now' = now + 1
  /\ UNCHANGED <<riskVars, rmCall, rmLog, runnerVars>>

ValidateSignalCall ==
  \E name \in Strategies, signal \in Signals(now), positionQty \in {0} \cup Quantities,
     last \in {NoSignal, [NoSignal EXCEPT !.Type = SignalBuy, !.Timestamp = now]} :
    /\ RiskReset
    /\ rmCall' = [op |-> "ValidateSignal", name |-> name, day |-> Day(now),
                  result |-> ValidateSignal(signal, Limits, name, positionQty, last,
                                            dailyTradeCount', dailyLoss', now),
                  others |-> ValidateSignal(signal, Limits, name, positionQty, last,
                                            EmptyCounters, EmptyCounters, now)]
    /\ UNCHANGED <<now, rmLog, runnerVars>>

RecordTradeCall ==
  \E name \in Strategies, tradePnL \in {-3, 3} :
    /\ Recorded < MaxRecords
    /\ LET count == CountersAfterReset(now, lastResetTime, dailyTradeCount)
           loss == CountersAfterReset(now, lastResetTime, dailyLoss)
       IN /\ dailyTradeCount' = [count EXCEPT ![name] = @ + 1]
          /\ dailyLoss' = IF tradePnL < 0 THEN [loss EXCEPT ![name] = @ + (-tradePnL)] ELSE loss
          /\ lastResetTime' = LastResetAfter(now, lastResetTime)
    /\ rmLog' = [rmLog EXCEPT ![name][Day(now)] =
                   [count |-> @.count + 1,
                    loss |-> @.loss + (IF tradePnL < 0 THEN -tradePnL ELSE 0)]]
    /\ rmCall' = [op |-> "RecordTrade", name |-> name, day |-> Day(now), result |-> TRUE,
                  others |-> TRUE]
    /\ UNCHANGED <<now, runnerVars>>

ShouldStopStrategyCall ==
  \E name \in Strategies, currentPnL \in {-6, 0} :
    /\ RiskReset
    /\ rmCall' = [op |-> "ShouldStopStrategy", name |-> name, day |-> Day(now),
                  result |-> ShouldStopStrategy(name, Limits, currentPnL, dailyLoss'),
                  others |-> TRUE]
    /\ UNCHANGED <<now, rmLog, runnerVars>>

GetDailyStatsCall ==
  \E name \in Strategies :
    /\ RiskReset
    /\ rmCall' = [op |-> "GetDailyStats", name |-> name, day |-> Day(now), result |-> TRUE,
                  others |-> TRUE]
    /\ UNCHANGED <<now, rmLog, runnerVars>>

----------------------------------------------------------------------------
(* ValidateSignal on its arguments *)

\* no call of ValidateSignal
NoValidate ==
  [name |-> Runner, signal |-> NoSignal, limits |-> Limits, positionQty |-> 0,
   last |-> NoSignal, at |-> 0, called |-> FALSE, out |-> FALSE]

\* the trade counts and losses RecordTrade can have left for a strategy: each
\* trade adds a loss of 0 or 3
ReachableCounters ==
  {c \in (0..MaxDailyTrades) \X {0, 3, 6} : c[2] <= 3 * c[1]}

\* the arguments of a call made at t or later: a signal, limits with a cap
\* on the position value, the quantity held, and the last signal if any
ValidateArgs(name, t) ==
  [name : {name},
   signal : [Type : SignalTypes, Quantity : Quantities, Price : {200, 201},
             Confidence : Confidences, Timestamp : {t}],
   limits : {[Limits EXCEPT !.MaxPositionSize = cap] : cap \in {400, MaxPositionSize}},
   positionQty : {0, 1},
   last : {NoSignal} \cup {[NoSignal EXCEPT !.Type = SignalBuy, !.Timestamp = u] :
                             u \in 0..t},
   at : {0},
   called : {FALSE},
   out : {FALSE}]

\* the call of ValidateSignal with those arguments
ValidateSignalApply ==
  /\ ~vsCall.called
  /\ vsCall.signal.Type # "none"
  /\ RiskReset
  /\ vsCall' = [vsCall EXCEPT
                  !.at = now,
                  !.called = TRUE,
                  !.out = ValidateSignal(vsCall.signal, vsCall.limits, vsCall.name,
                                         vsCall.positionQty, vsCall.last,
                                         dailyTradeCount', dailyLoss', now)]
  /\ UNCHANGED <<now, rmCall, rmLog, position, trades, pnl, state, lastSignal,
                 isRunning, pendingOrders, completedOrders, monitors, nextOrderId,
                 broker, engineVars, feedVars, loopVars, rmTasks, soloVars>>

----------------------------------------------------------------------------
(* The RiskManager shared by the runners: its calls statement by statement *)

\* no call in progress
NoCall == [pc |-> "idle", op |-> "none", reset |-> FALSE, today |-> 0, tradePnL |-> 0]

\* a runner enters RecordTrade or GetDailyStats: resetDailyCountersIfNeeded
\* reads the clock and lastResetTime and decides
SharedCallBegin(c) ==
  /\ rmTasks[c].pc = "idle"
  /\ \/ /\ Recorded < MaxRecords
        /\ \E tradePnL \in {-3, 3} :
             /\ rmTasks' = [rmTasks EXCEPT ![c] =
                              [pc |-> "checked", op |-> "RecordTrade",
                               reset |-> ResetNeeded(now, lastResetTime),
                               today |-> Truncate24h(now), tradePnL |-> tradePnL]]
             /\ rmLog' = [rmLog EXCEPT ![c][Day(now)] =
                            [count |-> @.count + 1,
                             loss |-> @.loss + (IF tradePnL < 0 THEN -tradePnL ELSE 0)]]
     \/ /\ rmTasks' = [rmTasks EXCEPT ![c] =
                         [pc |-> "checked", op |-> "GetDailyStats",
                          reset |-> ResetNeeded(now, lastResetTime),
                          today |-> Truncate24h(now), tradePnL |-> 0]]
        /\ rmLog' = rmLog
  /\ UNCHANGED <<now, riskVars, rmCall, position, trades, pnl, state, lastSignal,
                 isRunning, pendingOrders, completedOrders, monitors, nextOrderId,
                 broker, engineVars, feedVars, loopVars, vsCall, soloVars>>

\* the rest of the call: the reset it decided on, and for RecordTrade the
\* counters of the strategy
SharedCallEnd(c) ==
  /\ rmTasks[c].pc = "checked"
  /\ LET task == rmTasks[c]
         count == IF task.reset THEN EmptyCounters ELSE dailyTradeCount
         loss == IF task.reset THEN EmptyCounters ELSE dailyLoss
     IN /\ dailyTradeCount' = IF task.op = "RecordTrade"
                              THEN [count EXCEPT ![c] = @ + 1] ELSE count
        /\ dailyLoss' = IF task.op = "RecordTrade" /\ task.tradePnL < 0
                        THEN [loss EXCEPT ![c] = @ + (-task.tradePnL)] ELSE loss
        /\ lastResetTime' = IF task.reset THEN task.today ELSE lastResetTime
  /\ rmTasks' = [rmTasks EXCEPT ![c] = NoCall]
  /\ UNCHANGED <<now, rmCall, rmLog, position, trades, pnl, state, lastSignal,
                 isRunning, pendingOrders, completedOrders, monitors, nextOrderId,
                 broker, engineVars, feedVars, loopVars, vsCall, soloVars>>

----------------------------------------------------------------------------
(* OrderManager.SubmitOrder *)

\* a submission that hands its caller a Trade although the brokerage rejected
\* the order
SubmitOrderIgnoresError(request, resp, id, t, pend, comp) ==
  [err |-> FALSE,
   trade |-> [ID |-> id, Side |-> request.Side, Quantity |-> request.Quantity,
              Price |-> request.Price, Timestamp |-> t, PnL |-> 0,
                      Commission |-> 0],
   pending |-> pend,
   completed |-> Append(comp, [ID |-> 0, Side |-> request.Side, Type |-> request.Type,
                               Quantity |-> request.Quantity, Price |-> request.Price,
                               Status |-> IF resp.err THEN "failed" ELSE "filled",
                               FilledQty |-> 0, AvgPrice |-> 0, SubmitTime |-> t,
                               ErrorMsg |-> ""]),
   monitor |-> 0]

\* SubmitOrder: the brokerage answers resp and gives the order the id `id`.
\* The result: the error flag, the Trade returned, the two order tables and the
\* id the monitor goroutine is started for (0: none).
SubmitOrder(request, resp, id, t, pend, comp) ==
  LET record == [ID |-> 0, Side |-> request.Side, Type |-> request.Type,
                 Quantity |-> request.Quantity, Price |-> request.Price,
                 Status |-> "pending", FilledQty |-> 0, AvgPrice |-> 0,
                 SubmitTime |-> t, ErrorMsg |-> ""]
      answered == [record EXCEPT !.ID = id, !.Status = resp.State,
                                 !.FilledQty = resp.FilledAssetQuantity,
                                 !.AvgPrice = resp.AveragePrice]
  IN IF resp.err
     THEN [err |-> TRUE, trade |-> NoTrade, pending |-> pend,
           completed |-> Append(comp, [record EXCEPT !.Status = "failed",
                                                     !.ErrorMsg = "api error"]),
           monitor |-> 0]
     ELSE IF resp.State = "filled"
     THEN [err |-> FALSE,
           trade |-> [ID |-> id, Side |-> request.Side,
                      Quantity |-> resp.FilledAssetQuantity,
                      Price |-> resp.AveragePrice, Timestamp |-> t, PnL |-> 0,
                      Commission |-> 0],
           pending |-> pend, completed |-> Append(comp, answered), monitor |-> 0]
     ELSE [err |-> FALSE,
           trade |-> [ID |-> id, Side |-> request.Side, Quantity |-> request.Quantity,
                      Price |-> request.Price, Timestamp |-> t, PnL |-> 0,
                      Commission |-> 0],
           pending |-> pend @@ (id :> answered), completed |-> comp, monitor |-> id]

\* a status check that completes the order and leaves it in the pending table
checkAndUpdateKeepsPending(orderID, t, pend, comp) ==
  IF orderID \notin DOMAIN pend
  THEN [done |-> TRUE, pending |-> pend, completed |-> comp]
  ELSE IF t - pend[orderID].SubmitTime > Minute
  THEN [done |-> TRUE, pending |-> pend,
        completed |-> Append(comp, [pend[orderID] EXCEPT !.Status = "filled"])]
  ELSE [done |-> FALSE, pending |-> pend, completed |-> comp]

\* a cancellation that marks the record "failed"
cancelOrderMarksFailed(orderID, reason, apiErr, pend, comp) ==
  IF orderID \notin DOMAIN pend
  THEN [called |-> FALSE, pending |-> pend, completed |-> comp]
  ELSE [called |-> TRUE,
        pending |-> [i \in DOMAIN pend \ {orderID} |-> pend[i]],
        completed |-> Append(comp, [pend[orderID] EXCEPT !.Status = "failed",
                                                         !.ErrorMsg = reason])]

\* checkAndUpdateOrder: whether the monitor is done with the order, and the
\* tables it leaves.  (CompleteTime is written and never read: left out.)
checkAndUpdateOrder(orderID, t, pend, comp) ==
  IF orderID \notin DOMAIN pend
  THEN [done |-> TRUE, pending |-> pend, completed |-> comp]
  ELSE IF t - pend[orderID].SubmitTime > Minute
  THEN [done |-> TRUE,
        pending |-> [i \in DOMAIN pend \ {orderID} |-> pend[i]],
        completed |-> Append(comp, [pend[orderID] EXCEPT
                                      !.Status = "filled",
                                      !.FilledQty = pend[orderID].Quantity,
                                      !.AvgPrice = pend[orderID].Price])]
  ELSE [done |-> FALSE, pending |-> pend, completed |-> comp]

\* a cancelOrder that keeps the message of a failed brokerage call
cancelOrderKeepsApiError(orderID, reason, apiErr, pend, comp) ==
  IF orderID \notin DOMAIN pend
  THEN [called |-> FALSE, pending |-> pend, completed |-> comp]
  ELSE [called |-> TRUE,
        pending |-> [i \in DOMAIN pend \ {orderID} |-> pend[i]],
        completed |-> Append(comp, [pend[orderID] EXCEPT
                                      !.Status = "cancelled",
                                      !.ErrorMsg = IF apiErr THEN "cancel failed"
                                                   ELSE reason])]

\* cancelOrder: whether the brokerage was asked to cancel, and the tables it
\* leaves; apiErr is whether CancelCryptoOrder returned an error
cancelOrder(orderID, reason, apiErr, pend, comp) ==
  IF orderID \notin DOMAIN pend
  THEN [called |-> FALSE, pending |-> pend, completed |-> comp]
  ELSE LET answered == IF apiErr
                       THEN [pend[orderID] EXCEPT !.ErrorMsg = "cancel failed"]
                       ELSE pend[orderID]
       IN [called |-> TRUE,
           pending |-> [i \in DOMAIN pend \ {orderID} |-> pend[i]],
           completed |-> Append(comp, [answered EXCEPT !.Status = "cancelled",
                                                       !.ErrorMsg = reason])]

\* CancelAllOrders: the orders it starts a cancelOrder goroutine for
CancelAllOrders(pend) == DOMAIN pend

\* the number of orders the brokerage was asked to place
OrdersPlaced == Cardinality({i \in 1..Len(broker) : broker[i].op = "place"})

\* the request as the brokerage receives it (CancelCryptoOrder)
CancelRequest(orderID) ==
  [op |-> "cancel", side |-> "none", quantity |-> 0, id |-> orderID]

\* the request as the brokerage receives it (PlaceCryptoOrderNew)
PlaceRequest(request) ==
  [op |-> "place", side |-> request.Side, quantity |-> request.Quantity, id |-> 0]

----------------------------------------------------------------------------
(* StrategyRunner *)

\* a position update whose sells take their proceeds out of the cost and
\* recompute the average
updatePositionSellReprices(pos, trade) ==
  LET quantity == IF trade.Side = "buy" THEN pos.Quantity + trade.Quantity
                  ELSE pos.Quantity - trade.Quantity
      totalCost == IF trade.Side = "buy"
                   THEN pos.Quantity * pos.AveragePrice + trade.Quantity * trade.Price
                   ELSE pos.Quantity * pos.AveragePrice - trade.Quantity * trade.Price
  IN [position |-> IF quantity <= 0 THEN FlatPosition
                   ELSE [Quantity |-> quantity, AveragePrice |-> totalCost \div quantity],
      realized |-> IF trade.Side = "sell"
                   THEN trade.Quantity * trade.Price - trade.Quantity * pos.AveragePrice
                   ELSE 0]

\* a position update that leaves the average price on a closed position
updatePositionKeepsAverage(pos, trade) ==
  LET quantity == IF trade.Side = "buy" THEN pos.Quantity + trade.Quantity
                  ELSE pos.Quantity - trade.Quantity
      totalCost == pos.Quantity * pos.AveragePrice + trade.Quantity * trade.Price
  IN [position |-> IF trade.Side = "buy"
                   THEN [Quantity |-> quantity, AveragePrice |-> totalCost \div quantity]
                   ELSE [Quantity |-> IF quantity <= 0 THEN 0 ELSE quantity,
                         AveragePrice |-> pos.AveragePrice],
      realized |-> IF trade.Side = "sell"
                   THEN trade.Quantity * trade.Price - trade.Quantity * pos.AveragePrice
                        - trade.Commission
                   ELSE 0]

\* updatePositionFromTrade: the new position and the P&L the trade realizes
updatePositionFromTrade(pos, trade) ==
  LET moved ==
        IF trade.Side = "buy"
        THEN LET totalCost == pos.Quantity * pos.AveragePrice
                                + trade.Quantity * trade.Price
                 quantity == pos.Quantity + trade.Quantity
             IN [pos EXCEPT !.Quantity = quantity,
                            !.AveragePrice = totalCost \div quantity]
        ELSE IF trade.Side = "sell"
        THEN IF pos.Quantity - trade.Quantity <= 0
             THEN FlatPosition
             ELSE [pos EXCEPT !.Quantity = @ - trade.Quantity]
        ELSE pos
      realized ==
        IF trade.Side = "sell"
        THEN trade.Quantity * trade.Price - trade.Quantity * pos.AveragePrice
               - trade.Commission
        ELSE 0
  IN [position |-> moved, realized |-> realized]

\* getTodayTradeCount: trade.Timestamp.After(today)
getTodayTradeCount(log, t) ==
  Cardinality({i \in 1..Len(log) : log[i].Timestamp > Truncate24h(t)})

NoOrder == [Side |-> "none", Type |-> "market", Quantity |-> 0, Price |-> 0]

\* a stop loss that any loss triggers
StopLossOnAnyLoss(potentialProfit, costBasis) == potentialProfit < 0

\* profitPercent <= stopLossPercent, where profitPercent is
\* (potentialProfit / costBasis) * 100 in floating point: a zero cost basis
\* gives +Inf, -Inf or NaN, and every comparison with NaN is false
StopLossTriggered(potentialProfit, costBasis) ==
  IF costBasis > 0
  THEN potentialProfit * 10000 <= (0 - StopLossBp) * costBasis
  ELSE potentialProfit < 0

\* profitPercent < minProfitPercent
BelowMinProfit(potentialProfit, costBasis) ==
  IF costBasis > 0
  THEN potentialProfit * 10000 < MinProfitBp * costBasis
  ELSE potentialProfit < 0

\* a buy that does not look at the position
executeBuyWithoutPositionCheck(signal, pos) ==
  [Side |-> "buy", Type |-> "market", Quantity |-> signal.Quantity, Price |-> 0]

\* executeBuySignal, up to SubmitOrder: the order it submits, NoOrder when it
\* returns before
executeBuySignal(signal, pos) ==
  IF pos.Quantity > 0
  THEN NoOrder
  ELSE LET quantity ==
             IF signal.Quantity * signal.Price > MaxPositionSize
             THEN MaxPositionSize \div signal.Price
             ELSE signal.Quantity
       IN [Side |-> "buy", Type |-> "market", Quantity |-> quantity, Price |-> 0]

\* executeSellSignal, up to SubmitOrder
executeSellSignal(signal, pos) ==
  IF pos.Quantity <= 0
  THEN NoOrder
  ELSE LET currentValue == pos.Quantity * signal.Price
           costBasis == pos.Quantity * pos.AveragePrice
           potentialProfit == currentValue - costBasis
           quantity == IF signal.Quantity > pos.Quantity
                       THEN pos.Quantity ELSE signal.Quantity
       IN IF /\ ~StopLossTriggered(potentialProfit, costBasis)
             /\ BelowMinProfit(potentialProfit, costBasis)
          THEN NoOrder
          ELSE [Side |-> "sell", Type |-> "market", Quantity |-> quantity, Price |-> 0]

\* executeSignal, up to SubmitOrder
executeSignal(signal, pos) ==
  IF signal.Type = SignalBuy THEN executeBuySignal(signal, pos)
  ELSE IF signal.Type = SignalSell THEN executeSellSignal(signal, pos)
  ELSE NoOrder

\* the second check of processSignal: todayTrades >= MaxDailyTrades
DailyTradeLimitReached(log, t) ==
  getTodayTradeCount(log, t) >= MaxDailyTrades

\* executeBuySignal and executeSellSignal from SubmitOrder on: on an error
\* nothing but the order tables changes; otherwise updatePositionFromTrade, the
\* append to the trade log and TradesCount++
SubmitAndApply(order, resp) ==
  LET sub == SubmitOrder(order, resp, nextOrderId, now, pendingOrders, completedOrders)
      upd == updatePositionFromTrade(position, sub.trade)
  IN /\ pendingOrders' = sub.pending
     /\ completedOrders' = sub.completed
     /\ monitors' = IF sub.monitor = 0 THEN monitors
                    ELSE monitors @@ (sub.monitor :> [pc |-> "select", started |-> now])
     /\ broker' = Append(broker, PlaceRequest(order))
     /\ nextOrderId' = IF resp.err THEN nextOrderId ELSE nextOrderId + 1
     /\ IF sub.err
        THEN UNCHANGED <<position, pnl, trades>> /\ state' = state
        ELSE /\ position' = upd.position
             /\ pnl' = pnl + upd.realized
             /\ trades' = Append(trades, sub.trade)
             /\ state' = [state EXCEPT
                            !.Position = upd.position,
                            !.TradesCount = @ + 1,
                            !.PnL = IF sub.trade.Side = "sell"
                                    THEN pnl + upd.realized ELSE @]

\* processSignal
processSignal(signal) ==
  LET accepted == ValidateSignal(signal, Limits, Runner, state.Position.Quantity,
                                 lastSignal, dailyTradeCount', dailyLoss', now)
      order == executeSignal(signal, position)
  IN /\ RiskReset
     /\ UNCHANGED <<rmCall, rmLog>>
     /\ IF accepted /\ ~DailyTradeLimitReached(trades, now)
        THEN /\ IF order = NoOrder
                THEN UNCHANGED <<position, pnl, trades, pendingOrders,
                                 completedOrders, monitors, broker, nextOrderId>>
                     /\ state' = state
                ELSE \E resp \in Responses(order.Quantity, signal.Price) :
                       SubmitAndApply(order, resp)
             /\ lastSignal' = signal
        ELSE UNCHANGED <<position, pnl, trades, state, lastSignal, pendingOrders,
                         completedOrders, monitors, broker, nextOrderId>>

\* Run, up to its loop: the runner is marked running.  Run is launched once
\* per runner, and only runners that are running by then are followed through
\* an emergency stop.
RunStart(r) ==
  /\ ~isRunning[r]
  /\ stopChan[r] = "open"
  /\ ~ctxDone
  /\ ~emergency.issued
  /\ isRunning' = [isRunning EXCEPT ![r] = TRUE]
  /\ UNCHANGED <<position, trades, pnl, state, lastSignal, pendingOrders, completedOrders,
                 monitors, nextOrderId, broker, now, riskVars, rmCall, rmLog, engineVars, moreVars>>

\* The Run loop takes a tick from priceChan: processPriceTick.  The strategy
\* answers the tick with no signal or with one signal at the tick's price.
processPriceTick(price) ==
  \/ UNCHANGED <<position, pnl, trades, state, lastSignal, pendingOrders,
                 completedOrders, monitors, broker, nextOrderId, riskVars,
                 rmCall, rmLog>>
  \/ \E signal \in {s \in Signals(now) : s.Price = price} :
       processSignal(signal)

RunPriceTick ==
  /\ isRunning[Runner]
  /\ OrdersPlaced < MaxOrders
  /\ \E price \in Prices : processPriceTick(price)
  /\ UNCHANGED <<isRunning, now, engineVars, moreVars>>

TimePasses ==
  /\ now < MaxTime
  /\ now' = now + 1
  /\ UNCHANGED <<position, trades, pnl, state, lastSignal, isRunning, pendingOrders,
                 completedOrders, monitors, nextOrderId, broker, riskVars, rmCall,
                 rmLog, engineVars, moreVars>>

----------------------------------------------------------------------------
(* OrderManager goroutines, runner lifecycle and the engine's emergency stop *)

\* the orders the callers of SubmitOrder ask for
Requests == {[Side |-> "buy", Type |-> "limit", Quantity |-> 1, Price |-> 200]}

\* some caller's SubmitOrder
SubmitOrderCall ==
  /\ OrdersPlaced < MaxSubmits
  /\ \E request \in Requests : \E resp \in Responses(request.Quantity, 200) :
       LET sub == SubmitOrder(request, resp, nextOrderId, now, pendingOrders,
                              completedOrders)
       IN /\ pendingOrders' = sub.pending
          /\ completedOrders' = sub.completed
          /\ monitors' = IF sub.monitor = 0 THEN monitors
                         ELSE monitors @@ (sub.monitor :> [pc |-> "select",
                                                           started |-> now])
          /\ broker' = Append(broker, PlaceRequest(request))
          /\ nextOrderId' = IF resp.err THEN nextOrderId ELSE nextOrderId + 1
  /\ UNCHANGED <<position, trades, pnl, state, lastSignal, isRunning, now, riskVars,
                 rmCall, rmLog, engineVars, moreVars>>

\* monitorOrder, case <-ticker.C
MonitorTick(orderID) ==
  /\ orderID \in DOMAIN monitors
  /\ monitors[orderID].pc = "select"
  /\ LET r == checkAndUpdateOrder(orderID, now, pendingOrders, completedOrders)
     IN /\ pendingOrders' = r.pending
        /\ completedOrders' = r.completed
        /\ monitors' = IF r.done THEN [monitors EXCEPT ![orderID].pc = "done"]
                       ELSE monitors
  /\ UNCHANGED <<position, trades, pnl, state, lastSignal, isRunning, nextOrderId,
                 broker, now, riskVars, rmCall, rmLog, engineVars, moreVars>>

\* monitorOrder, case <-timeout
MonitorTimeout(orderID) ==
  /\ orderID \in DOMAIN monitors
  /\ monitors[orderID].pc = "select"
  /\ now - monitors[orderID].started >= OrderTimeout
  /\ \E apiErr \in BOOLEAN :
       LET r == cancelOrder(orderID, "timeout", apiErr, pendingOrders, completedOrders)
       IN /\ pendingOrders' = r.pending
          /\ completedOrders' = r.completed
          /\ broker' = IF r.called THEN Append(broker, CancelRequest(orderID))
                       ELSE broker
  /\ monitors' = [monitors EXCEPT ![orderID].pc = "timeout"]
  /\ UNCHANGED <<position, trades, pnl, state, lastSignal, isRunning, nextOrderId,
                 now, riskVars, rmCall, rmLog, engineVars, moreVars>>

\* a close of a closed channel panics
Close(chan) == IF chan = "open" THEN "closed" ELSE "panic"

\* StrategyRunner.Stop: what becomes of stopChan
Stop(running, chan) == IF running THEN Close(chan) ELSE chan

\* TradingEngine.EmergencyStop: Stop on every runner, then CancelAllOrders
EmergencyStop ==
  /\ ~emergency.issued
  /\ stopChan' = [r \in Strategies |-> Stop(isRunning[r], stopChan[r])]
  /\ cancelTasks' = cancelTasks \cup CancelAllOrders(pendingOrders)
  /\ emergency' = [issued |-> TRUE, pending |-> DOMAIN pendingOrders]
  /\ UNCHANGED <<position, trades, pnl, state, lastSignal, isRunning, pendingOrders,
                 completedOrders, monitors, nextOrderId, broker, now, riskVars,
                 rmCall, rmLog, moreVars>>

\* a goroutine of CancelAllOrders runs: cancelOrder(orderID, "emergency_stop")
CancelTask(orderID) ==
  /\ orderID \in cancelTasks
  /\ cancelTasks' = cancelTasks \ {orderID}
  /\ \E apiErr \in BOOLEAN :
       LET r == cancelOrder(orderID, "emergency_stop", apiErr, pendingOrders,
                            completedOrders)
       IN /\ pendingOrders' = r.pending
          /\ completedOrders' = r.completed
          /\ broker' = IF r.called THEN Append(broker, CancelRequest(orderID))
                       ELSE broker
  /\ UNCHANGED <<position, trades, pnl, state, lastSignal, isRunning, monitors,
                 nextOrderId, now, riskVars, rmCall, rmLog, stopChan, emergency, moreVars>>

\* the Run loop takes case <-sr.stopChan and returns: the deferred function
\* marks the runner not running
RunExit(r) ==
  /\ isRunning[r]
  /\ stopChan[r] = "closed" \/ (ctxDone /\ stopChan[r] = "open")
  /\ r = Runner => runPc = "select"
  /\ isRunning' = [isRunning EXCEPT ![r] = FALSE]
  /\ UNCHANGED <<position, trades, pnl, state, lastSignal, pendingOrders,
                 completedOrders, monitors, nextOrderId, broker, now, riskVars,
                 rmCall, rmLog, engineVars, moreVars>>

----------------------------------------------------------------------------
(* The loop of Run on its queues *)

\* the signals queued on signalChan
QueuedSignals ==
  {[Type |-> SignalBuy, Price |-> 200, Quantity |-> 1, Confidence |-> 50,
    Timestamp |-> 0]}

\* the panic of a close of the closed stopChan ends the program
Panicked == \E r \in Strategies : stopChan[r] = "panic"

ProcessPriceTickEvictsOldest(queue, tick) ==
  IF Len(queue) < PriceChanCap THEN Append(queue, tick)
  ELSE Append(Tail(queue), tick)

\* ProcessPriceTick: select { case sr.priceChan <- tick: default: }
ProcessPriceTick(queue, tick) ==
  IF Len(queue) < PriceChanCap THEN Append(queue, tick) ELSE queue

\* some caller's ProcessPriceTick; the ticks are told apart by their time
ProcessPriceTickCall ==
  /\ ~Panicked
  /\ offered < MaxTicks
  /\ \E price \in Prices :
       LET tick == [Price |-> price, Timestamp |-> offered + 1]
       IN /\ priceChan' = ProcessPriceTick(priceChan, tick)
          /\ enqueued' = IF Len(priceChan) < PriceChanCap
                         THEN Append(enqueued, tick) ELSE enqueued
  /\ offered' = offered + 1
  /\ UNCHANGED <<position, trades, pnl, state, lastSignal, isRunning, pendingOrders,
                 completedOrders, monitors, nextOrderId, broker, now, riskVars, rmCall,
                 rmLog, engineVars, feedVars, rmTasks, vsCall, soloVars, signalChan, mu, runPc, hand,
                 strategyStops, handed>>

\* Run, case tick := <-sr.priceChan, and the Lock of processPriceTick
RunTakeTick ==
  /\ ~Panicked
  /\ isRunning[Runner]
  /\ runPc = "select"
  /\ priceChan # <<>>
  /\ mu = "free"
  /\ hand' = [NoHand EXCEPT !.tick = Head(priceChan)]
  /\ priceChan' = Tail(priceChan)
  /\ mu' = "run"
  /\ runPc' = "tick"
  /\ UNCHANGED <<position, trades, pnl, state, lastSignal, isRunning, pendingOrders,
                 completedOrders, monitors, nextOrderId, broker, now, riskVars, rmCall,
                 rmLog, engineVars, feedVars, rmTasks, vsCall, soloVars, signalChan, strategyStops, offered,
                 enqueued, handed>>

\* processPriceTick with the lock held, and its deferred Unlock
RunProcessTick ==
  /\ ~Panicked
  /\ runPc = "tick"
  /\ processPriceTick(hand.tick.Price)
  /\ handed' = Append(handed, hand.tick)
  /\ hand' = NoHand
  /\ mu' = "free"
  /\ runPc' = "select"
  /\ UNCHANGED <<isRunning, now, engineVars, feedVars, rmTasks, vsCall, soloVars, priceChan, signalChan,
                 strategyStops, offered, enqueued>>

\* a signal is queued on signalChan
QueueSignal ==
  /\ ~Panicked
  /\ Len(signalChan) < MaxQueued
  /\ \E signal \in QueuedSignals : signalChan' = Append(signalChan, signal)
  /\ UNCHANGED <<position, trades, pnl, state, lastSignal, isRunning, pendingOrders,
                 completedOrders, monitors, nextOrderId, broker, now, riskVars, rmCall,
                 rmLog, engineVars, feedVars, rmTasks, vsCall, soloVars, priceChan, mu, runPc, hand,
                 strategyStops, offered, enqueued, handed>>

\* Run, case signal := <-sr.signalChan: processSignal without the lock, up to
\* and including updatePositionFromTrade
RunTakeSignal ==
  /\ ~Panicked
  /\ isRunning[Runner]
  /\ runPc = "select"
  /\ signalChan # <<>>
  /\ signalChan' = Tail(signalChan)
  /\ LET signal == Head(signalChan)
         passed == /\ ValidateSignal(signal, Limits, Runner, state.Position.Quantity,
                                     lastSignal, dailyTradeCount', dailyLoss', now)
                   /\ ~DailyTradeLimitReached(trades, now)
         order == executeSignal(signal, position)
     IN /\ RiskReset
        /\ IF passed /\ order # NoOrder
           THEN \E resp \in Responses(order.Quantity, signal.Price) :
                  LET sub == SubmitOrder(order, resp, nextOrderId, now, pendingOrders,
                                         completedOrders)
                      upd == updatePositionFromTrade(position, sub.trade)
                  IN /\ pendingOrders' = sub.pending
                     /\ completedOrders' = sub.completed
                     /\ monitors' = IF sub.monitor = 0 THEN monitors
                                    ELSE monitors @@
                                           (sub.monitor :> [pc |-> "select",
                                                            started |-> now])
                     /\ broker' = Append(broker, PlaceRequest(order))
                     /\ nextOrderId' = IF resp.err THEN nextOrderId ELSE nextOrderId + 1
                     /\ IF sub.err
                        THEN /\ UNCHANGED <<position, pnl, state, hand, runPc>>
                             /\ lastSignal' = signal
                        ELSE /\ position' = upd.position
                             /\ pnl' = pnl + upd.realized
                             /\ state' = [state EXCEPT
                                            !.Position = upd.position,
                                            !.PnL = IF sub.trade.Side = "sell"
                                                    THEN pnl + upd.realized ELSE @]
                             /\ hand' = [NoHand EXCEPT !.signal = signal,
                                                       !.trade = sub.trade]
                             /\ runPc' = "append"
                             /\ lastSignal' = lastSignal
           ELSE /\ UNCHANGED <<position, pnl, state, hand, runPc, pendingOrders,
                               completedOrders, monitors, broker, nextOrderId>>
                /\ lastSignal' = IF passed THEN signal ELSE lastSignal
  /\ UNCHANGED <<trades, isRunning, now, rmCall, rmLog, engineVars, feedVars, rmTasks, vsCall, soloVars, priceChan,
                 mu, strategyStops, offered, enqueued, handed>>

\* executeBuySignal and executeSellSignal on that path: the append to the
\* trade log
RunAppendTrade ==
  /\ ~Panicked
  /\ runPc = "append"
  /\ trades' = Append(trades, hand.trade)
  /\ runPc' = "count"
  /\ UNCHANGED <<position, pnl, state, lastSignal, isRunning, pendingOrders,
                 completedOrders, monitors, nextOrderId, broker, now, riskVars, rmCall,
                 rmLog, engineVars, feedVars, rmTasks, vsCall, soloVars, priceChan, signalChan, mu, hand,
                 strategyStops, offered, enqueued, handed>>

\* then TradesCount++, and LastSignal back in processSignal
RunCountTrade ==
  /\ ~Panicked
  /\ runPc = "count"
  /\ state' = [state EXCEPT !.TradesCount = @ + 1]
  /\ lastSignal' = hand.signal
  /\ hand' = NoHand
  /\ runPc' = "select"
  /\ UNCHANGED <<position, pnl, trades, isRunning, pendingOrders, completedOrders,
                 monitors, nextOrderId, broker, now, riskVars, rmCall, rmLog,
                 engineVars, feedVars, rmTasks, vsCall, soloVars, priceChan, signalChan, mu, strategyStops,
                 offered, enqueued, handed>>

\* StrategyRunner.Stop, with the runner's lock
StopCall(r) ==
  /\ ~Panicked
  /\ mu = "free"
  /\ isRunning[r]
  /\ stopChan' = [stopChan EXCEPT ![r] = Stop(isRunning[r], @)]
  /\ strategyStops' = IF stopChan[r] = "open" THEN strategyStops + 1 ELSE strategyStops
  /\ UNCHANGED <<position, trades, pnl, state, lastSignal, isRunning, pendingOrders,
                 completedOrders, monitors, nextOrderId, broker, now, riskVars, rmCall,
                 rmLog, cancelTasks, emergency, feedVars, rmTasks, vsCall, soloVars, priceChan, signalChan, mu,
                 runPc, hand, offered, enqueued, handed>>

\* StrategyRunner.Stop called after go sr.Run(ctx) and before Run has set
\* isRunning: the test of isRunning fails and Stop returns
StopBeforeRunning(r) ==
  /\ ~Panicked
  /\ mu = "free"
  /\ ~isRunning[r]
  /\ stopChan[r] = "open"
  /\ ~ctxDone
  /\ earlyStops < MaxEarlyStops
  /\ earlyStops' = earlyStops + 1
  /\ UNCHANGED <<position, trades, pnl, state, lastSignal, isRunning, pendingOrders,
                 completedOrders, monitors, nextOrderId, broker, now, riskVars, rmCall,
                 rmLog, engineVars, feedVars, loopVars, rmTasks, vsCall, metricVars,
                 strategyVars>>

\* the context handed to Run is cancelled
CancelContext ==
  /\ ~Panicked
  /\ ~ctxDone
  /\ ctxDone' = TRUE
  /\ UNCHANGED <<position, trades, pnl, state, lastSignal, isRunning, pendingOrders,
                 completedOrders, monitors, nextOrderId, broker, now, riskVars, rmCall,
                 rmLog, engineVars, pf, pfLoops, chans, pfCycles, loopVars, rmTasks, vsCall, soloVars>>

----------------------------------------------------------------------------
(* PriceFeed *)

\* the channels handed to Subscribe
Channels == {"c1", "c2"}

\* as many subscriptions as there are channels, a channel possibly twice
MaxSubscribers == Cardinality(Channels)

\* the prices the brokerage quotes to the feed
FeedPrices == {200, 201}

\* what GetBestBidAsk returns: an error, no quote, or one quote
FetchResults ==
  {[err |-> TRUE, quotes |-> <<>>], [err |-> FALSE, quotes |-> <<>>]}
    \cup {[err |-> FALSE, quotes |-> <<p>>] : p \in FeedPrices}

NewPriceFeed ==
  [isRunning |-> FALSE, stopChan |-> "open", lastTick |-> NoTick, subscribers |-> <<>>]

\* a goroutine of Start that has entered its loop
NewLoop == [pc |-> "select", tick |-> NoTick, subs |-> <<>>, next |-> 1, sent |-> <<>>]

\* select { case sub <- tick: default: } on a channel holding queue
trySend(queue, tick) ==
  IF Len(queue) < ChanCap THEN Append(queue, tick) ELSE queue

fetchClearsLastTickOnFailure(result, feed, t) ==
  IF result.err \/ Len(result.quotes) = 0
  THEN [ok |-> FALSE, feed |-> [feed EXCEPT !.lastTick = NoTick], tick |-> NoTick,
        subs |-> <<>>]
  ELSE LET tick == [Price |-> result.quotes[1], Timestamp |-> t]
       IN [ok |-> TRUE, feed |-> [feed EXCEPT !.lastTick = tick], tick |-> tick,
           subs |-> feed.subscribers]

\* fetchAndBroadcastPrice up to its broadcast: the fetch, the tick, lastTick
\* and the copy of the subscribers
fetchAndBroadcastPrice(result, feed, t) ==
  IF result.err \/ Len(result.quotes) = 0
  THEN [ok |-> FALSE, feed |-> feed, tick |-> NoTick, subs |-> <<>>]
  ELSE LET tick == [Price |-> result.quotes[1], Timestamp |-> t]
       IN [ok |-> TRUE, feed |-> [feed EXCEPT !.lastTick = tick], tick |-> tick,
           subs |-> feed.subscribers]

broadcastStopsAtFull(loop, chs) ==
  LET ch == loop.subs[loop.next]
      room == Len(chs[ch]) < ChanCap
  IN [chans |-> [chs EXCEPT ![ch] = trySend(@, loop.tick)],
      next |-> IF room THEN loop.next + 1 ELSE Len(loop.subs) + 1,
      sent |-> Append(loop.sent, room)]

\* one turn of the broadcast loop of fetchAndBroadcastPrice: the tick is
\* offered to the next subscriber of the copy
broadcast(loop, chs) ==
  LET ch == loop.subs[loop.next]
      room == Len(chs[ch]) < ChanCap
  IN [chans |-> [chs EXCEPT ![ch] = trySend(@, loop.tick)],
      next |-> loop.next + 1,
      sent |-> Append(loop.sent, room)]

\* Unsubscribe: the first occurrence of ch leaves the subscribers
Unsubscribe(subs, ch) ==
  IF \E i \in 1..Len(subs) : subs[i] = ch
  THEN LET i == CHOOSE k \in 1..Len(subs) :
                  /\ subs[k] = ch
                  /\ \A j \in 1..(k - 1) : subs[j] # ch
       IN SubSeq(subs, 1, i - 1) \o SubSeq(subs, i + 1, Len(subs))
  ELSE subs

Crashed == pf.stopChan = "panic"

\* PriceFeed.Start, up to its loop
FeedStart ==
  /\ ~Crashed
  /\ ~pf.isRunning
  /\ pf' = [pf EXCEPT !.isRunning = TRUE]
  /\ pfLoops' = Append(pfLoops, NewLoop)
  /\ UNCHANGED <<chans, ctxDone, pfCycles>>

\* the loop of Start, case <-ticker.C: fetchAndBroadcastPrice up to its
\* broadcast
FeedFetch(l) ==
  /\ ~Crashed
  /\ pfLoops[l].pc = "select"
  /\ Len(pfCycles) < MaxFetches
  /\ \E result \in FetchResults :
       LET f == fetchAndBroadcastPrice(result, pf, now)
       IN /\ pf' = f.feed
          /\ pfLoops' = IF f.ok /\ Len(f.subs) > 0
                        THEN [pfLoops EXCEPT ![l] = [pc |-> "broadcast", tick |-> f.tick,
                                                     subs |-> f.subs, next |-> 1,
                                                     sent |-> <<>>]]
                        ELSE pfLoops
          /\ pfCycles' = Append(pfCycles, IF result.err THEN "error"
                                          ELSE IF f.ok THEN "quote" ELSE "empty")
  /\ UNCHANGED <<chans, ctxDone>>

\* the broadcast loop of fetchAndBroadcastPrice, one subscriber at a time
FeedSend(l) ==
  /\ ~Crashed
  /\ pfLoops[l].pc = "broadcast"
  /\ LET b == broadcast(pfLoops[l], chans)
     IN /\ chans' = b.chans
        /\ pfLoops' = [pfLoops EXCEPT ![l] =
                          IF b.next > Len(pfLoops[l].subs)
                          THEN [NewLoop EXCEPT !.sent = b.sent]
                          ELSE [@ EXCEPT !.next = b.next, !.sent = b.sent]]
  /\ UNCHANGED <<pf, ctxDone, pfCycles>>

\* the loop of Start, case <-ctx.Done() and case <-pf.stopChan
FeedLoopExit(l) ==
  /\ ~Crashed
  /\ pfLoops[l].pc = "select"
  /\ ctxDone \/ pf.stopChan = "closed"
  /\ pfLoops' = [pfLoops EXCEPT ![l].pc = "done"]
  /\ UNCHANGED <<pf, chans, ctxDone, pfCycles>>

\* PriceFeed.Stop
FeedStop ==
  /\ ~Crashed
  /\ pf.isRunning
  /\ pf' = [pf EXCEPT !.stopChan = Close(@),
                      !.isRunning = IF pf.stopChan = "open" THEN FALSE ELSE @]
  /\ UNCHANGED <<pfLoops, chans, ctxDone, pfCycles>>

\* PriceFeed.Subscribe
Subscribe(ch) ==
  /\ ~Crashed
  /\ Len(pf.subscribers) < MaxSubscribers
  /\ pf' = [pf EXCEPT !.subscribers = Append(@, ch)]
  /\ UNCHANGED <<pfLoops, chans, ctxDone, pfCycles>>

\* PriceFeed.Unsubscribe
UnsubscribeCall(ch) ==
  /\ ~Crashed
  /\ pf' = [pf EXCEPT !.subscribers = Unsubscribe(@, ch)]
  /\ pf' # pf
  /\ UNCHANGED <<pfLoops, chans, ctxDone, pfCycles>>

\* a subscriber takes the oldest tick of its channel
Receive(ch) ==
  /\ ~Crashed
  /\ chans[ch] # <<>>
  /\ chans' = [chans EXCEPT ![ch] = Tail(@)]
  /\ UNCHANGED <<pf, pfLoops, ctxDone, pfCycles>>

\* what the feed's actions leave alone
FeedFrame ==
  UNCHANGED <<position, trades, pnl, state, lastSignal, isRunning, pendingOrders,
              completedOrders, monitors, nextOrderId, broker, now, riskVars, rmCall,
              rmLog, engineVars, loopVars, rmTasks, vsCall, soloVars>>

----------------------------------------------------------------------------
(* PerformanceMetrics.  MaxDrawdownPercent is in whole percent.  SharpeRatio *)
(* and SortinoRatio are functions of the daily returns alone: the model     *)
(* keeps, as SharpeOf and SortinoOf, the returns each was last computed     *)
(* from (none: the ratio is still 0).                                        *)

NewPerformanceMetrics(t) ==
  [InitialCapital |-> InitialCapital,
   TotalPnL |-> 0,
   DailyPnL |-> 0,
   MaxDrawdown |-> 0,
   MaxDrawdownPercent |-> 0,
   SharpeOf |-> <<>>,
   SortinoOf |-> <<>>,
   VaR95 |-> 0,
   StartTime |-> t,
   LastUpdate |-> 0,
   DayStartTime |-> Truncate24h(t),
   DayStartPnL |-> 0,
   dailyReturns |-> <<>>,
   peakValue |-> InitialCapital,
   currentDrawdown |-> 0]

Abs(x) == IF x < 0 THEN -x ELSE x

\* calculateVaR: the entry at index int(alpha * len) of the returns sorted in
\* ascending order, as an absolute value; alpha is in percent
calculateVaR(returns, alpha) ==
  IF Len(returns) = 0 THEN 0
  ELSE LET n == Len(returns)
           at == (alpha * n) \div 100
           index == IF at >= n THEN n - 1 ELSE at
           Below(v) == Cardinality({i \in 1..n : returns[i] < v})
           UpTo(v) == Cardinality({i \in 1..n : returns[i] <= v})
           entry == CHOOSE v \in {returns[i] : i \in 1..n} :
                      Below(v) <= index /\ index < UpTo(v)
       IN Abs(entry)

\* calculateRiskMetrics: nothing with fewer than 30 daily returns; the Sharpe
\* ratio is set when the standard deviation is positive (the returns are not
\* all equal), the Sortino ratio when that of the negative returns is (there
\* are two of them or more)
calculateRiskMetrics(m) ==
  IF Len(m.dailyReturns) < MinRiskDays THEN m
  ELSE LET returns == m.dailyReturns
           n == Len(returns)
           downturns == {i \in 1..n : returns[i] < 0}
       IN [m EXCEPT
             !.SharpeOf = IF \E i \in 1..n : returns[i] # returns[1]
                          THEN returns ELSE @,
             !.SortinoOf = IF Cardinality(downturns) > 1 THEN returns ELSE @,
             !.VaR95 = calculateVaR(returns, 5)]

\* a drawdown tracking that adds every drawdown to MaxDrawdown
UpdateDrawdownSums(m, currentValue) ==
  LET peak == IF currentValue > m.peakValue THEN currentValue ELSE m.peakValue
  IN [m EXCEPT !.peakValue = peak,
               !.currentDrawdown = peak - currentValue,
               !.MaxDrawdown = @ + (peak - currentValue),
               !.MaxDrawdownPercent = ((m.MaxDrawdown + (peak - currentValue)) * 100) \div peak]

\* a drawdown tracking whose peak is the last value
UpdateDrawdownPeakFollows(m, currentValue) ==
  LET drawdown == m.peakValue - currentValue
  IN [m EXCEPT !.peakValue = currentValue,
               !.currentDrawdown = IF drawdown > 0 THEN drawdown ELSE 0,
               !.MaxDrawdown = IF drawdown > @ THEN drawdown ELSE @,
               !.MaxDrawdownPercent = IF drawdown > m.MaxDrawdown
                                      THEN (drawdown * 100) \div m.peakValue ELSE @]

\* UpdatePortfolioValue, "Update drawdown"
UpdateDrawdown(m, currentValue) ==
  LET peak == IF currentValue > m.peakValue THEN currentValue ELSE m.peakValue
      drawdown == peak - currentValue
  IN [m EXCEPT !.peakValue = peak,
               !.currentDrawdown = drawdown,
               !.MaxDrawdown = IF drawdown > @ THEN drawdown ELSE @,
               !.MaxDrawdownPercent = IF drawdown > m.MaxDrawdown
                                      THEN (drawdown * 100) \div peak ELSE @]

\* a daily return that is appended without a cap on the history
CalculateDailyReturnKeepsAll(m, t) ==
  IF t - m.DayStartTime >= DayLen
  THEN [m EXCEPT !.dailyReturns = Append(@, m.TotalPnL - m.DayStartPnL),
                 !.DayStartTime = Truncate24h(t),
                 !.DayStartPnL = m.TotalPnL]
  ELSE m

\* UpdatePortfolioValue, "Calculate daily return"
CalculateDailyReturn(m, t) ==
  IF t - m.DayStartTime >= DayLen
  THEN LET appended == Append(m.dailyReturns, m.TotalPnL - m.DayStartPnL)
       IN [m EXCEPT !.dailyReturns = IF Len(appended) > MaxDailyReturns
                                     THEN Tail(appended) ELSE appended,
                    !.DayStartTime = Truncate24h(t),
                    !.DayStartPnL = m.TotalPnL]
  ELSE m

UpdatePortfolioValue(m, currentValue, t) ==
  LET valued == [m EXCEPT !.TotalPnL = currentValue - m.InitialCapital]
      tracked == UpdateDrawdown(valued, currentValue)
      rolled == CalculateDailyReturn(tracked, t)
      daily == [rolled EXCEPT !.DailyPnL = rolled.TotalPnL - rolled.DayStartPnL]
      rated == calculateRiskMetrics(daily)
  IN [rated EXCEPT !.LastUpdate = t]

\* the value the portfolio had at the end of the i-th day of a past
PastValue(i) ==
  IF i % 3 = 1 THEN 8000 ELSE IF i % 3 = 2 THEN 10000 ELSE 12500

\* a PerformanceMetrics built n days ago and given the value of the portfolio
\* at the first instant of each day since, the last one now (time 0); the
\* calls of the days lo..hi, made on the metrics m
RECURSIVE PastCalls(_, _, _, _)
PastCalls(m, n, lo, hi) ==
  IF lo > hi THEN m
  ELSE IF lo = hi THEN UpdatePortfolioValue(m, PastValue(lo), (lo - n) * DayLen)
  ELSE LET mid == (lo + hi) \div 2
       IN CHOOSE last \in {PastCalls(half, n, mid + 1, hi) :
                             half \in {PastCalls(m, n, lo, mid)}} : TRUE

Past(n) == PastCalls(NewPerformanceMetrics(-n * DayLen), n, 1, n)

UpdatePortfolioValueCall ==
  /\ pmCalls < MaxUpdates
  /\ \E currentValue \in PortfolioValues :
       /\ pm' = UpdatePortfolioValue(pm, currentValue, now)
       /\ pmFed' = Append(pmFed, currentValue)
  /\ pmCalls' = pmCalls + 1
  /\ UNCHANGED <<now, riskVars, rmCall, rmLog, position, trades, pnl, state, lastSignal,
                 isRunning, pendingOrders, completedOrders, monitors, nextOrderId,
                 broker, engineVars, feedVars, loopVars, rmTasks, vsCall, strategyVars, launchVars>>

MetricsTimePasses ==
  /\ now < MaxMetricsTime
  /\ now' = now + 1
  /\ UNCHANGED <<riskVars, rmCall, rmLog, position, trades, pnl, state, lastSignal,
                 isRunning, pendingOrders, completedOrders, monitors, nextOrderId,
                 broker, engineVars, feedVars, loopVars, rmTasks, vsCall, soloVars>>

StartMetrics ==
  /\ pm = NewPerformanceMetrics(now)
  /\ pmFed = <<>>
  /\ pmCalls = 0

----------------------------------------------------------------------------
(* The strategies.  A float64 is an exact fraction num/den (den = 0: NaN, as *)
(* 0.0/0 gives); prices and volumes are whole numbers, so that sums, means   *)
(* and their comparisons are exact.  The zero time.Time is ZeroTime.         *)

Rat(n, d) == [num |-> n, den |-> d]
Whole(n) == Rat(n, 1)
IsNaN(x) == x.den = 0
\* x == 0, x < y, x <= y, x > y, x >= y on float64 (all false on a NaN)
IsZero(x) == ~IsNaN(x) /\ x.num = 0
Lt(x, y) == ~IsNaN(x) /\ ~IsNaN(y) /\ x.num * y.den < y.num * x.den
Le(x, y) == ~IsNaN(x) /\ ~IsNaN(y) /\ x.num * y.den <= y.num * x.den
Gt(x, y) == Lt(y, x)
Ge(x, y) == Le(y, x)
RECURSIVE Gcd(_, _)
Gcd(a, b) == IF b = 0 THEN a ELSE Gcd(b, a % b)
\* fractions are kept in lowest terms with a positive denominator
Lowest(n, d) ==
  IF d = 0 THEN Rat(0, 0)
  ELSE LET g == Gcd(IF n < 0 THEN -n ELSE n, IF d < 0 THEN -d ELSE d)
       IN IF d < 0 THEN Rat((-n) \div g, (-d) \div g) ELSE Rat(n \div g, d \div g)
RAdd(x, y) ==
  IF IsNaN(x) \/ IsNaN(y) THEN Rat(0, 0)
  ELSE LET g == Gcd(x.den, y.den)
       IN Lowest(x.num * (y.den \div g) + y.num * (x.den \div g), (x.den \div g) * y.den)
RSub(x, y) == RAdd(x, Rat(-y.num, y.den))
RMul(x, y) == Lowest(x.num * y.num, x.den * y.den)
RDiv(x, y) == IF IsNaN(x) \/ IsNaN(y) \/ y.num = 0 THEN Rat(0, 0)
              ELSE Lowest(x.num * y.den, x.den * y.num)
RMin(x, y) == IF Gt(x, y) THEN y ELSE x

\* the sum of prices[i] over the indices lo..hi (counted from 1)
RECURSIVE SumRange(_, _, _)
SumRange(prices, lo, hi) ==
  IF lo > hi THEN 0 ELSE prices[hi] + SumRange(prices, lo, hi - 1)

\* a loop over lo..hi reads an index that prices does not have
OutOfRange(prices, lo, hi) == lo <= hi /\ (lo < 1 \/ hi > Len(prices))

\* prices[len(prices)-n:]
LastN(prices, n) == SubSeq(prices, Len(prices) - n + 1, Len(prices))

\* the mean of the period prices that end at the index hi
MeanTo(prices, period, hi) == Lowest(SumRange(prices, hi - period + 1, hi), period)

NoSignals == <<>>

NewMovingAverageStrategy ==
  [shortPeriod |-> 5,
   longPeriod |-> 20,
   maxPositionSize |-> 0,
   prices |-> <<>>,
   shortMA |-> Whole(0),
   longMA |-> Whole(0),
   lastSignal |-> SignalHold,
   lastSignalTime |-> ZeroTime,
   panicked |-> FALSE]

\* make([]float64, n) panics on a negative n
MakePanics(n) == n < 0

\* MovingAverageStrategy.Initialize: the strategy, and "ok" for nil, "error"
\* for an error
MovingAverageInitialize(m, config) ==
  LET parsed == [m EXCEPT !.maxPositionSize = config.MaxPositionSize,
                          !.shortPeriod = config.short_period,
                          !.longPeriod = config.long_period]
  IN IF parsed.shortPeriod >= parsed.longPeriod
     THEN [strategy |-> parsed, result |-> "error"]
     ELSE IF parsed.shortPeriod < 2 \/ parsed.longPeriod < 2
     THEN [strategy |-> parsed, result |-> "error"]
     ELSE [strategy |-> parsed, result |-> "ok"]

\* updateMovingAverages of both strategies; a read outside prices panics
updateMovingAverages(m) ==
  LET len == Len(m.prices)
  IN IF len < m.longPeriod THEN m
     ELSE IF \/ OutOfRange(m.prices, len - m.shortPeriod + 1, len)
             \/ OutOfRange(m.prices, len - m.longPeriod + 1, len)
     THEN [m EXCEPT !.panicked = TRUE]
     ELSE [m EXCEPT !.shortMA = MeanTo(m.prices, m.shortPeriod, len),
                    !.longMA = MeanTo(m.prices, m.longPeriod, len)]

\* the previous moving averages of generateSignals: 0 until prices is longer
\* than the long period
PrevOutOfRange(m) ==
  LET len == Len(m.prices)
  IN /\ len > m.longPeriod
     /\ \/ OutOfRange(m.prices, len - m.shortPeriod, len - 1)
        \/ OutOfRange(m.prices, len - m.longPeriod, len - 1)

prevShortMA(m) ==
  IF Len(m.prices) > m.longPeriod
  THEN MeanTo(m.prices, m.shortPeriod, Len(m.prices) - 1) ELSE Whole(0)

prevLongMA(m) ==
  IF Len(m.prices) > m.longPeriod
  THEN MeanTo(m.prices, m.longPeriod, Len(m.prices) - 1) ELSE Whole(0)

\* "Detect actual crossovers"
BullishCrossover(m) ==
  /\ ~IsZero(prevShortMA(m)) /\ ~IsZero(prevLongMA(m))
  /\ Le(prevShortMA(m), prevLongMA(m)) /\ Gt(m.shortMA, m.longMA)

BearishCrossover(m) ==
  /\ ~IsZero(prevShortMA(m)) /\ ~IsZero(prevLongMA(m))
  /\ ~BullishCrossover(m)
  /\ Ge(prevShortMA(m), prevLongMA(m)) /\ Lt(m.shortMA, m.longMA)

\* base + factor * spread, where spread is |shortMA - longMA| / longMA
SpreadConfidence(m, base, factor) ==
  LET spread == IF Gt(m.shortMA, m.longMA)
                THEN RDiv(RSub(m.shortMA, m.longMA), m.longMA)
                ELSE RDiv(RSub(m.longMA, m.shortMA), m.longMA)
  IN RAdd(base, RMul(Whole(factor), spread))

\* calculatePositionSize: maxPositionValue scaled by the confidence, as a
\* quantity at the price; 0 below the minimum position value
PositionSize(maxPositionValue, price, confidence, minPositionValue) ==
  LET scaledPositionValue == RMul(maxPositionValue, confidence)
  IN IF Lt(scaledPositionValue, Whole(minPositionValue)) THEN Whole(0)
     ELSE RDiv(scaledPositionValue, Whole(price))

MakeSignal(type, tick, quantity, confidence) ==
  [Type |-> type, Price |-> tick.Price, Quantity |-> quantity,
   Timestamp |-> tick.Timestamp, Confidence |-> confidence]

\* MovingAverageStrategy.generateSignals at the time t
MovingAverageSignals(m, tick, t) ==
  IF IsZero(m.shortMA) \/ IsZero(m.longMA)
  THEN [strategy |-> m, signals |-> NoSignals]
  ELSE IF PrevOutOfRange(m)
  THEN [strategy |-> [m EXCEPT !.panicked = TRUE], signals |-> NoSignals]
  ELSE
    LET signal == IF BullishCrossover(m) THEN SignalBuy
                  ELSE IF BearishCrossover(m) THEN SignalSell ELSE SignalHold
        confidence == IF signal = SignalHold THEN Rat(1, 2)
                      ELSE RMin(SpreadConfidence(m, Rat(1, 2), 10), Whole(1))
        quantity == PositionSize(Whole(m.maxPositionSize), tick.Price, confidence, 5)
    IN IF /\ signal # SignalHold
          /\ t - m.lastSignalTime >= 5 * Minute
          /\ Gt(quantity, Whole(0))
       THEN [strategy |-> [m EXCEPT !.lastSignal = signal,
                                    !.lastSignalTime = tick.Timestamp],
             signals |-> <<MakeSignal(signal, tick, quantity, confidence)>>]
       ELSE [strategy |-> m, signals |-> NoSignals]

\* ProcessTick, "Add price to history" and "Keep only what we need"
AddPrice(m, tick) ==
  LET appended == Append(m.prices, tick.Price)
      maxHistory == m.longPeriod * 2
  IN [m EXCEPT !.prices = IF Len(appended) > maxHistory
                          THEN LastN(appended, maxHistory) ELSE appended]

\* MovingAverageStrategy.ProcessTick at the time t
MovingAverageProcessTick(m, tick, t) ==
  LET updated == updateMovingAverages(AddPrice(m, tick))
  IN IF updated.panicked THEN [strategy |-> updated, signals |-> NoSignals]
     ELSE MovingAverageSignals(updated, tick, t)

NewScalpingStrategy ==
  [shortPeriod |-> 3,
   longPeriod |-> 10,
   volatilityThreshold |-> Rat(1, 100),
   maxPositionSize |-> 0,
   prices |-> <<>>,
   shortMA |-> Whole(0),
   longMA |-> Whole(0),
   lastSignal |-> SignalHold,
   lastSignalTime |-> ZeroTime,
   panicked |-> FALSE]

\* an Initialize that takes any two periods that make takes
ScalpingInitializeAny(m, config) ==
  LET parsed == [m EXCEPT !.maxPositionSize = config.MaxPositionSize,
                          !.shortPeriod = config.short_period,
                          !.longPeriod = config.long_period]
  IN IF MakePanics(parsed.shortPeriod) \/ MakePanics(parsed.longPeriod)
     THEN [strategy |-> [parsed EXCEPT !.panicked = TRUE], result |-> "panic"]
     ELSE [strategy |-> parsed, result |-> "ok"]

\* ScalpingStrategy.Initialize: the strategy, and "ok" for nil, "error" for an
\* error, "panic" when make panics
ScalpingInitialize(m, config) ==
  LET parsed == [m EXCEPT !.maxPositionSize = config.MaxPositionSize,
                          !.shortPeriod = config.short_period,
                          !.longPeriod = config.long_period]
  IN IF parsed.shortPeriod >= parsed.longPeriod
     THEN [strategy |-> parsed, result |-> "error"]
     ELSE IF MakePanics(parsed.shortPeriod) \/ MakePanics(parsed.longPeriod)
     THEN [strategy |-> [parsed EXCEPT !.panicked = TRUE], result |-> "panic"]
     ELSE [strategy |-> parsed, result |-> "ok"]

\* ScalpingStrategy.calculateVolatility: the variance of the prices over the
\* square of their mean, which is the sum of (n*p - S)^2 over n*S^2 for n
\* prices p of sum S
calculateVolatility(prices) ==
  IF Len(prices) < 2 THEN Whole(0)
  ELSE LET n == Len(prices)
           S == SumRange(prices, 1, n)
           squares == [i \in 1..n |-> (n * prices[i] - S) * (n * prices[i] - S)]
       IN RDiv(Lowest(SumRange(squares, 1, n), n), Whole(S * S))

\* the volatility filter lets the tick through
VolatilityPassed(m) ==
  \/ Len(m.prices) < 5
  \/ ~Lt(calculateVolatility(LastN(m.prices, 5)), RMul(m.volatilityThreshold, Rat(1, 10)))

\* "If no previous data for crossover detection, use trend strength"
TrendSignal(m) ==
  LET enough == Ge(SpreadConfidence(m, Whole(0), 1), Rat(8, 1000))
  IN IF Gt(m.shortMA, m.longMA) /\ enough THEN SignalSell
     ELSE IF Lt(m.shortMA, m.longMA) /\ enough THEN SignalBuy
     ELSE SignalHold

\* ScalpingStrategy.generateScalpingSignals at the time t
ScalpingSignals(m, tick, t) ==
  IF IsZero(m.shortMA) \/ IsZero(m.longMA) \/ ~VolatilityPassed(m)
  THEN [strategy |-> m, signals |-> NoSignals]
  ELSE IF PrevOutOfRange(m)
  THEN [strategy |-> [m EXCEPT !.panicked = TRUE], signals |-> NoSignals]
  ELSE
    LET crossing == ~IsZero(prevShortMA(m)) /\ ~IsZero(prevLongMA(m))
        signal == IF crossing
                  THEN IF BullishCrossover(m) THEN SignalBuy
                       ELSE IF BearishCrossover(m) THEN SignalSell ELSE SignalHold
                  ELSE TrendSignal(m)
        confidence == IF signal = SignalHold THEN Rat(6, 10)
                      ELSE IF crossing
                      THEN RMin(SpreadConfidence(m, Rat(6, 10), 15), Whole(1))
                      ELSE RMin(SpreadConfidence(m, Rat(1, 2), 10), Whole(1))
        quantity == PositionSize(RMul(Whole(m.maxPositionSize), Rat(8, 10)),
                                 tick.Price, confidence, 3)
    IN IF /\ signal # SignalHold
          /\ 2 * (t - m.lastSignalTime) >= Minute
          /\ Gt(quantity, Whole(0))
       THEN [strategy |-> [m EXCEPT !.lastSignal = signal,
                                    !.lastSignalTime = tick.Timestamp],
             signals |-> <<MakeSignal(signal, tick, quantity, confidence)>>]
       ELSE [strategy |-> m, signals |-> NoSignals]

\* ScalpingStrategy.ProcessTick at the time t
ScalpingProcessTick(m, tick, t) ==
  LET updated == updateMovingAverages(AddPrice(m, tick))
  IN IF updated.panicked THEN [strategy |-> updated, signals |-> NoSignals]
     ELSE ScalpingSignals(updated, tick, t)

\* Stop of MovingAverageStrategy and of ScalpingStrategy
StrategyStop(m) == [m EXCEPT !.prices = <<>>]

\* Reset of MovingAverageStrategy and of ScalpingStrategy
StrategyReset(m) ==
  [m EXCEPT !.prices = <<>>,
            !.shortMA = Whole(0),
            !.longMA = Whole(0),
            !.lastSignal = SignalHold,
            !.lastSignalTime = ZeroTime]

\* the zero value of SignalType, which is a string type
SignalZero == ""

NewMomentumStrategy ==
  [lookbackPeriod |-> 10,
   momentumThreshold |-> Rat(2, 100),
   volumeMultiplier |-> Rat(3, 2),
   maxPositionSize |-> 0,
   prices |-> <<>>,
   volumes |-> <<>>,
   returns |-> <<>>,
   avgVolume |-> Whole(0),
   momentum |-> Whole(0),
   volatility |-> Whole(0),
   lastSignal |-> SignalHold,
   lastSignalTime |-> ZeroTime,
   panicked |-> FALSE]

\* MomentumStrategy.Initialize, which returns nil
MomentumInitialize(m, config) ==
  [m EXCEPT !.maxPositionSize = config.MaxPositionSize,
            !.lookbackPeriod = config.lookback_period]

\* math.Sqrt, rounded down to a hundredth
RECURSIVE RootUpTo(_, _)
RootUpTo(n, r) == IF (r + 1) * (r + 1) > n THEN r ELSE RootUpTo(n, r + 1)
Sqrt(x) ==
  IF IsNaN(x) \/ x.num < 0 THEN Rat(0, 0)
  ELSE Lowest(RootUpTo((x.num * 10000) \div x.den, 0), 100)

\* the sum of the fractions xs[lo..hi]
RECURSIVE RSum(_, _, _)
RSum(xs, lo, hi) == IF lo > hi THEN Whole(0) ELSE RAdd(xs[hi], RSum(xs, lo, hi - 1))

RAbs(x) == IF x.num < 0 THEN Rat(-x.num, x.den) ELSE x

\* MomentumStrategy.calculateVolatility: the standard deviation of the last
\* lookbackPeriod returns
returnsVolatility(m) ==
  IF Len(m.returns) < m.lookbackPeriod THEN Whole(0)
  ELSE LET recent == LastN(m.returns, m.lookbackPeriod)
           n == Len(recent)
           meanReturn == RDiv(RSum(recent, 1, n), Whole(n))
           squares == [i \in 1..n |-> RMul(RSub(recent[i], meanReturn),
                                           RSub(recent[i], meanReturn))]
       IN Sqrt(RDiv(RSum(squares, 1, n), Whole(n - 1)))

\* ProcessTick of MomentumStrategy up to "Calculate returns"
AddPriceAndVolume(m, tick) ==
  LET maxHistory == m.lookbackPeriod * 2
      Keep(xs) == IF Len(xs) > maxHistory THEN LastN(xs, maxHistory) ELSE xs
      prices == Keep(Append(m.prices, tick.Price))
      volumes == IF Len(m.prices) + 1 > maxHistory
                 THEN LastN(Append(m.volumes, tick.Volume), maxHistory)
                 ELSE Append(m.volumes, tick.Volume)
      len == Len(prices)
  IN [m EXCEPT !.prices = prices,
               !.volumes = volumes,
               !.returns = IF len >= 2
                           THEN Keep(Append(@, RDiv(Whole(prices[len] - prices[len - 1]),
                                                    Whole(prices[len - 1]))))
                           ELSE @]

\* MomentumStrategy.updateMomentumIndicators; a read outside prices or
\* volumes panics
updateMomentumIndicators(m) ==
  LET len == Len(m.prices)
      past == len - m.lookbackPeriod + 1
  IN IF len < m.lookbackPeriod THEN m
     ELSE IF past < 1 \/ past > len THEN [m EXCEPT !.panicked = TRUE]
     ELSE IF /\ Len(m.volumes) >= m.lookbackPeriod
             /\ OutOfRange(m.volumes, Len(m.volumes) - m.lookbackPeriod + 1, Len(m.volumes))
     THEN [m EXCEPT !.panicked = TRUE]
     ELSE [m EXCEPT
             !.momentum = RDiv(Whole(m.prices[len] - m.prices[past]), Whole(m.prices[past])),
             !.avgVolume = IF Len(m.volumes) >= m.lookbackPeriod
                           THEN MeanTo(m.volumes, m.lookbackPeriod, Len(m.volumes))
                           ELSE @,
             !.volatility = IF Len(m.returns) >= m.lookbackPeriod
                            THEN returnsVolatility(m) ELSE @]

\* a volume at the average times the multiplier is enough
VolumeConfirmsAtAverage(m, tick) ==
  Ge(Whole(tick.Volume), RMul(m.avgVolume, m.volumeMultiplier))

\* the tick has the volume a signal needs
VolumeConfirms(m, tick) ==
  Gt(Whole(tick.Volume), RMul(m.avgVolume, m.volumeMultiplier))

\* generateSignals, "MOMENTUM TREND FOLLOWING": the type, which stays the zero
\* value when the momentum is past the threshold and the volume is not enough
MomentumSignalType(m, tick) ==
  IF Gt(m.momentum, m.momentumThreshold)
  THEN IF VolumeConfirms(m, tick) THEN SignalBuy ELSE SignalZero
  ELSE IF Lt(m.momentum, RSub(Whole(0), m.momentumThreshold))
  THEN IF VolumeConfirms(m, tick) THEN SignalSell ELSE SignalZero
  ELSE SignalHold

\* MomentumStrategy.calculatePositionSize
MomentumPositionSize(m, price, confidence) ==
  LET volatilityAdjustment == IF Gt(m.volatility, Whole(0))
                              THEN RDiv(Whole(1), RAdd(Whole(1), RMul(m.volatility, Whole(5))))
                              ELSE Whole(1)
      momentumMultiplier == RMin(RAdd(Whole(1), RMul(RAbs(m.momentum), Whole(2))), Whole(2))
      scaledPositionValue == RMul(RMul(RMul(Whole(m.maxPositionSize), confidence),
                                       volatilityAdjustment), momentumMultiplier)
  IN IF Lt(scaledPositionValue, Whole(10)) THEN Whole(0)
     ELSE RDiv(scaledPositionValue, Whole(price))

\* MomentumStrategy.generateSignals at the time t
MomentumSignals(m, tick, t) ==
  IF Len(m.prices) < m.lookbackPeriod
  THEN [strategy |-> m, signals |-> NoSignals]
  ELSE
    LET signal == MomentumSignalType(m, tick)
        raw == IF signal \in {SignalBuy, SignalSell}
               THEN RMin(RAdd(Rat(1, 2), RMul(RAbs(m.momentum), Whole(5))), Whole(1))
               ELSE Rat(1, 2)
        confidence == IF Gt(m.volatility, Whole(0))
                      THEN RMul(raw, RDiv(Whole(1), RAdd(Whole(1), RMul(m.volatility, Whole(10)))))
                      ELSE raw
        quantity == MomentumPositionSize(m, tick.Price, confidence)
    IN IF /\ signal # m.lastSignal /\ signal # SignalHold
          /\ t - m.lastSignalTime >= 2 * Minute
          /\ Gt(quantity, Whole(0))
       THEN [strategy |-> [m EXCEPT !.lastSignal = signal,
                                    !.lastSignalTime = tick.Timestamp],
             signals |-> <<MakeSignal(signal, tick, quantity, confidence)>>]
       ELSE [strategy |-> m, signals |-> NoSignals]

\* MomentumStrategy.ProcessTick at the time t
MomentumProcessTick(m, tick, t) ==
  LET updated == updateMomentumIndicators(AddPriceAndVolume(m, tick))
  IN IF updated.panicked THEN [strategy |-> updated, signals |-> NoSignals]
     ELSE MomentumSignals(updated, tick, t)

MomentumStopped(m) == [m EXCEPT !.prices = <<>>, !.volumes = <<>>, !.returns = <<>>]

MomentumResetTo(m) ==
  [m EXCEPT !.prices = <<>>,
            !.volumes = <<>>,
            !.returns = <<>>,
            !.momentum = Whole(0),
            !.volatility = Whole(0),
            !.avgVolume = Whole(0),
            !.lastSignal = SignalHold,
            !.lastSignalTime = ZeroTime]

\* the volumes of the ticks, and the lookback of the MomentumStrategy with
\* the limit of its config
TickVolumes == {0, 40}
MomentumConfig == [lookback_period |-> 2, MaxPositionSize |-> Limits.MaxPositionSize]

\* the ticks: their prices, and how long a tick may wait before it is
\* processed
StrategyPrices == {100, 110}
TickLags == 0..MaxLag

NoStrategyCall ==
  [called |-> FALSE, tick |-> [Price |-> 0, Volume |-> 0, Timestamp |-> 0], at |-> 0,
   signals |-> NoSignals, prices |-> <<>>]

\* a call of ProcessTick: the tick, the time, the signals returned and the
\* prices the strategy held when it returned
StrategyCall(tick, t, out) ==
  [called |-> TRUE, tick |-> tick, at |-> t, signals |-> out.signals,
   prices |-> out.strategy.prices]

\* the signals with the time they were emitted at
EmittedAt(signals, t) ==
  [i \in 1..Len(signals) |-> [Type |-> signals[i].Type,
                              Confidence |-> signals[i].Confidence,
                              Timestamp |-> signals[i].Timestamp,
                              at |-> t,
                              tick |-> stratFed + 1]]

\* a tick stamped now is processed by the MovingAverageStrategy and the
\* ScalpingStrategy
CrossoverTick ==
  /\ stratFed < MaxStrategyTicks
  /\ ~mas.panicked /\ ~ss.panicked
  /\ \E price \in StrategyPrices :
       LET tick == [Price |-> price, Volume |-> 0, Timestamp |-> now]
           ma == MovingAverageProcessTick(mas, tick, now)
           scalp == ScalpingProcessTick(ss, tick, now)
       IN /\ mas' = ma.strategy
          /\ ss' = scalp.strategy
          /\ stratOut' = [stratOut EXCEPT !.mas = StrategyCall(tick, now, ma),
                                          !.ss = StrategyCall(tick, now, scalp)]
          /\ masEmitted' = masEmitted \o EmittedAt(ma.signals, now)
  /\ stratFed' = stratFed + 1
  /\ UNCHANGED <<ms, stratOps, initCall>>
  /\ UNCHANGED <<now, riskVars, rmCall, rmLog, position, trades, pnl, state, lastSignal,
                 isRunning, pendingOrders, completedOrders, monitors, nextOrderId,
                 broker, engineVars, feedVars, loopVars, rmTasks, vsCall, metricVars, launchVars>>

\* a tick stamped at most MaxLag ago, and not before the last one, is
\* processed by the MovingAverageStrategy
MovingAverageTick ==
  /\ stratFed < MaxStrategyTicks
  /\ ~mas.panicked
  /\ \E price \in StrategyPrices, lag \in TickLags :
       LET tick == [Price |-> price, Volume |-> 0, Timestamp |-> now - lag]
           ma == MovingAverageProcessTick(mas, tick, now)
       IN /\ tick.Timestamp >= 0
          /\ tick.Timestamp >= stratOut.mas.tick.Timestamp
          /\ mas' = ma.strategy
          /\ stratOut' = [stratOut EXCEPT !.mas = StrategyCall(tick, now, ma)]
          /\ masEmitted' = masEmitted \o EmittedAt(ma.signals, now)
  /\ stratFed' = stratFed + 1
  /\ UNCHANGED <<ss, ms, stratOps, initCall>>
  /\ UNCHANGED <<now, riskVars, rmCall, rmLog, position, trades, pnl, state, lastSignal,
                 isRunning, pendingOrders, completedOrders, monitors, nextOrderId,
                 broker, engineVars, feedVars, loopVars, rmTasks, vsCall, metricVars, launchVars>>

\* the prices of the scenario of 25 rising prices from 100 to 125, which
\* leave out one of the whole numbers between
ScenarioPrices == 100..125
ScenarioTicks == Cardinality(ScenarioPrices) - 1

\* the next price of the scenario is processed by the MovingAverageStrategy
ScenarioTick ==
  /\ stratFed < ScenarioTicks
  /\ \E price \in ScenarioPrices :
       LET first == CHOOSE low \in ScenarioPrices : \A q \in ScenarioPrices : low <= q
           ahead == price - first - stratFed
           tick == [Price |-> price, Volume |-> 0, Timestamp |-> now]
           ma == MovingAverageProcessTick(mas, tick, now)
       IN /\ IF stratFed = 0 THEN price = first
             ELSE /\ price > stratOut.mas.tick.Price
                  /\ ahead \in {0, 1}
          /\ stratFed + 1 = ScenarioTicks => ahead = 1
          /\ mas' = ma.strategy
          /\ stratOut' = [stratOut EXCEPT !.mas = StrategyCall(tick, now, ma)]
          /\ masEmitted' = masEmitted \o EmittedAt(ma.signals, now)
  /\ stratFed' = stratFed + 1
  /\ UNCHANGED <<ss, ms, stratOps, initCall>>
  /\ UNCHANGED <<now, riskVars, rmCall, rmLog, position, trades, pnl, state, lastSignal,
                 isRunning, pendingOrders, completedOrders, monitors, nextOrderId,
                 broker, engineVars, feedVars, loopVars, rmTasks, vsCall, metricVars, launchVars>>

MovingAverageStop ==
  /\ stratOps < MaxStrategyOps
  /\ mas' = StrategyStop(mas)
  /\ stratOps' = stratOps + 1
  /\ UNCHANGED <<ss, ms, stratOut, masEmitted, stratFed, initCall>>
  /\ UNCHANGED <<now, riskVars, rmCall, rmLog, position, trades, pnl, state, lastSignal,
                 isRunning, pendingOrders, completedOrders, monitors, nextOrderId,
                 broker, engineVars, feedVars, loopVars, rmTasks, vsCall, metricVars, launchVars>>

MovingAverageReset ==
  /\ stratOps < MaxStrategyOps
  /\ mas' = StrategyReset(mas)
  /\ masEmitted' = <<>>
  /\ stratOps' = stratOps + 1
  /\ UNCHANGED <<ss, ms, stratOut, stratFed, initCall>>
  /\ UNCHANGED <<now, riskVars, rmCall, rmLog, position, trades, pnl, state, lastSignal,
                 isRunning, pendingOrders, completedOrders, monitors, nextOrderId,
                 broker, engineVars, feedVars, loopVars, rmTasks, vsCall, metricVars, launchVars>>

ScalpingStop ==
  /\ stratOps < MaxStrategyOps
  /\ ss' = StrategyStop(ss)
  /\ stratOps' = stratOps + 1
  /\ UNCHANGED <<mas, ms, stratOut, masEmitted, stratFed, initCall>>
  /\ UNCHANGED <<now, riskVars, rmCall, rmLog, position, trades, pnl, state, lastSignal,
                 isRunning, pendingOrders, completedOrders, monitors, nextOrderId,
                 broker, engineVars, feedVars, loopVars, rmTasks, vsCall, metricVars, launchVars>>

ScalpingReset ==
  /\ stratOps < MaxStrategyOps
  /\ ss' = StrategyReset(ss)
  /\ stratOps' = stratOps + 1
  /\ UNCHANGED <<mas, ms, stratOut, masEmitted, stratFed, initCall>>
  /\ UNCHANGED <<now, riskVars, rmCall, rmLog, position, trades, pnl, state, lastSignal,
                 isRunning, pendingOrders, completedOrders, monitors, nextOrderId,
                 broker, engineVars, feedVars, loopVars, rmTasks, vsCall, metricVars, launchVars>>

\* a tick stamped now is processed by the MomentumStrategy
MomentumTick ==
  /\ stratFed < MaxStrategyTicks
  /\ ~ms.panicked
  /\ \E price \in StrategyPrices, volume \in TickVolumes :
       LET tick == [Price |-> price, Volume |-> volume, Timestamp |-> now]
           out == MomentumProcessTick(ms, tick, now)
       IN /\ ms' = out.strategy
          /\ stratOut' = [stratOut EXCEPT !.ms = StrategyCall(tick, now, out)]
  /\ stratFed' = stratFed + 1
  /\ UNCHANGED <<mas, ss, masEmitted, stratOps, initCall>>
  /\ UNCHANGED <<now, riskVars, rmCall, rmLog, position, trades, pnl, state, lastSignal,
                 isRunning, pendingOrders, completedOrders, monitors, nextOrderId,
                 broker, engineVars, feedVars, loopVars, rmTasks, vsCall, metricVars, launchVars>>

\* the Volume of the ticks that fetchAndBroadcastPrice builds
FeedVolume == 0

\* a tick of the PriceFeed, stamped now, is processed by the MomentumStrategy
MomentumFeedTick ==
  /\ stratFed < MaxStrategyTicks
  /\ ~ms.panicked
  /\ \E price \in StrategyPrices :
       LET tick == [Price |-> price, Volume |-> FeedVolume, Timestamp |-> now]
           out == MomentumProcessTick(ms, tick, now)
       IN /\ ms' = out.strategy
          /\ stratOut' = [stratOut EXCEPT !.ms = StrategyCall(tick, now, out)]
  /\ stratFed' = stratFed + 1
  /\ UNCHANGED <<mas, ss, masEmitted, stratOps, initCall>>
  /\ UNCHANGED <<now, riskVars, rmCall, rmLog, position, trades, pnl, state, lastSignal,
                 isRunning, pendingOrders, completedOrders, monitors, nextOrderId,
                 broker, engineVars, feedVars, loopVars, rmTasks, vsCall, metricVars, launchVars>>

MomentumStop ==
  /\ stratOps < MaxStrategyOps
  /\ ms' = MomentumStopped(ms)
  /\ stratOps' = stratOps + 1
  /\ UNCHANGED <<mas, ss, stratOut, masEmitted, stratFed, initCall>>
  /\ UNCHANGED <<now, riskVars, rmCall, rmLog, position, trades, pnl, state, lastSignal,
                 isRunning, pendingOrders, completedOrders, monitors, nextOrderId,
                 broker, engineVars, feedVars, loopVars, rmTasks, vsCall, metricVars, launchVars>>

MomentumReset ==
  /\ stratOps < MaxStrategyOps
  /\ ms' = MomentumResetTo(ms)
  /\ stratOps' = stratOps + 1
  /\ UNCHANGED <<mas, ss, stratOut, masEmitted, stratFed, initCall>>
  /\ UNCHANGED <<now, riskVars, rmCall, rmLog, position, trades, pnl, state, lastSignal,
                 isRunning, pendingOrders, completedOrders, monitors, nextOrderId,
                 broker, engineVars, feedVars, loopVars, rmTasks, vsCall, metricVars, launchVars>>

StrategyTimePasses ==
  /\ now < MaxStrategyTime
  /\ now' = now + 1
  /\ UNCHANGED <<riskVars, rmCall, rmLog, position, trades, pnl, state, lastSignal,
                 isRunning, pendingOrders, completedOrders, monitors, nextOrderId,
                 broker, engineVars, feedVars, loopVars, rmTasks, vsCall, soloVars>>

CooldownTimePasses ==
  /\ now < MaxCooldownTime
  /\ now' = now + 1
  /\ UNCHANGED <<riskVars, rmCall, rmLog, position, trades, pnl, state, lastSignal,
                 isRunning, pendingOrders, completedOrders, monitors, nextOrderId,
                 broker, engineVars, feedVars, loopVars, rmTasks, vsCall, soloVars>>

\* the periods of the crossover strategies, and the limit of their config
CrossoverConfig ==
  [short_period |-> 2, long_period |-> 3, MaxPositionSize |-> Limits.MaxPositionSize]

\* the strategies as their constructors leave them
StartStrategies ==
  /\ mas = NewMovingAverageStrategy
  /\ ss = NewScalpingStrategy
  /\ ms = NewMomentumStrategy
  /\ stratOut = [mas |-> NoStrategyCall, ss |-> NoStrategyCall, ms |-> NoStrategyCall]
  /\ masEmitted = <<>>
  /\ stratFed = 0
  /\ stratOps = 0
  /\ initCall = [config |-> CrossoverConfig, mas |-> "none", ss |-> "none"]

\* the periods of the scenario
ScenarioConfig ==
  [short_period |-> 5, long_period |-> 20, MaxPositionSize |-> Limits.MaxPositionSize]

\* the strategies after an Initialize that returned nil
StartInitialized(config) ==
  /\ mas = MovingAverageInitialize(NewMovingAverageStrategy, config).strategy
  /\ ss = ScalpingInitialize(NewScalpingStrategy, config).strategy
  /\ ms = MomentumInitialize(NewMomentumStrategy, MomentumConfig)
  /\ stratOut = [mas |-> NoStrategyCall, ss |-> NoStrategyCall, ms |-> NoStrategyCall]
  /\ masEmitted = <<>>
  /\ stratFed = 0
  /\ stratOps = 0
  /\ initCall = [config |-> config, mas |-> "ok", ss |-> "ok"]

\* the periods a config can hold
InitPeriods == -1..3

\* MovingAverageStrategy.Initialize is called with the config
MovingAverageInitializeCall ==
  /\ initCall.mas = "none"
  /\ LET done == MovingAverageInitialize(mas, initCall.config)
     IN /\ mas' = done.strategy
        /\ initCall' = [initCall EXCEPT !.mas = done.result]
  /\ UNCHANGED <<ss, ms, stratOut, masEmitted, stratFed, stratOps>>
  /\ UNCHANGED <<now, riskVars, rmCall, rmLog, position, trades, pnl, state, lastSignal,
                 isRunning, pendingOrders, completedOrders, monitors, nextOrderId,
                 broker, engineVars, feedVars, loopVars, rmTasks, vsCall, metricVars, launchVars>>

\* ScalpingStrategy.Initialize is called with the config
ScalpingInitializeCall ==
  /\ initCall.ss = "none"
  /\ LET done == ScalpingInitialize(ss, initCall.config)
     IN /\ ss' = done.strategy
        /\ initCall' = [initCall EXCEPT !.ss = done.result]
  /\ UNCHANGED <<mas, ms, stratOut, masEmitted, stratFed, stratOps>>
  /\ UNCHANGED <<now, riskVars, rmCall, rmLog, position, trades, pnl, state, lastSignal,
                 isRunning, pendingOrders, completedOrders, monitors, nextOrderId,
                 broker, engineVars, feedVars, loopVars, rmTasks, vsCall, metricVars, launchVars>>

\* a tick goes to the crossover strategies whose Initialize returned nil
InitializedTick ==
  /\ stratFed < MaxStrategyTicks
  /\ initCall.mas = "ok" \/ initCall.ss = "ok"
  /\ \E price \in StrategyPrices :
       LET tick == [Price |-> price, Volume |-> 0, Timestamp |-> now]
           ma == MovingAverageProcessTick(mas, tick, now)
           sc == ScalpingProcessTick(ss, tick, now)
       IN /\ IF initCall.mas = "ok"
             THEN /\ mas' = ma.strategy
                  /\ masEmitted' = masEmitted \o EmittedAt(ma.signals, now)
             ELSE UNCHANGED <<mas, masEmitted>>
          /\ ss' = IF initCall.ss = "ok" THEN sc.strategy ELSE ss
          /\ stratOut' = [stratOut EXCEPT
               !.mas = IF initCall.mas = "ok" THEN StrategyCall(tick, now, ma) ELSE @,
               !.ss = IF initCall.ss = "ok" THEN StrategyCall(tick, now, sc) ELSE @]
  /\ stratFed' = stratFed + 1
  /\ UNCHANGED <<ms, stratOps, initCall>>
  /\ UNCHANGED <<now, riskVars, rmCall, rmLog, position, trades, pnl, state, lastSignal,
                 isRunning, pendingOrders, completedOrders, monitors, nextOrderId,
                 broker, engineVars, feedVars, loopVars, rmTasks, vsCall, metricVars, launchVars>>

----------------------------------------------------------------------------
(* OrderManager.GetOrderStats.  FillRate is a float64, an exact fraction.   *)

\* the loop over completedOrders: the records counted under the status
RECURSIVE CountStatus(_, _)
CountStatus(comp, status) ==
  IF comp = <<>> THEN 0
  ELSE (IF Head(comp).Status = status THEN 1 ELSE 0) + CountStatus(Tail(comp), status)

\* a GetOrderStats whose TotalOrders takes in the pending orders
GetOrderStatsOfAllOrders(pend, comp) ==
  LET total == Len(comp) + Cardinality(DOMAIN pend)
      filled == CountStatus(comp, "filled")
  IN [TotalOrders |-> total,
      PendingOrders |-> Cardinality(DOMAIN pend),
      FilledOrders |-> filled,
      CancelledOrders |-> CountStatus(comp, "cancelled"),
      FailedOrders |-> CountStatus(comp, "failed"),
      FillRate |-> IF total > 0 THEN Lowest(filled, total) ELSE Whole(0)]

\* GetOrderStats on the two tables
GetOrderStats(pend, comp) ==
  LET total == Len(comp)
      filled == CountStatus(comp, "filled")
  IN [TotalOrders |-> total,
      PendingOrders |-> Cardinality(DOMAIN pend),
      FilledOrders |-> filled,
      CancelledOrders |-> CountStatus(comp, "cancelled"),
      FailedOrders |-> CountStatus(comp, "failed"),
      FillRate |-> IF total > 0 THEN Lowest(filled, total) ELSE Whole(0)]

----------------------------------------------------------------------------
(* Initial state: the objects as their constructors leave them *)

StartObjects ==
  /\ earlyStops = 0
  /\ rmCall = [op |-> "none", name |-> Runner, day |-> Day(now), result |-> TRUE,
                  others |-> TRUE]
  /\ position = FlatPosition
  /\ trades = <<>>
  /\ pnl = 0
  /\ state = [Position |-> FlatPosition, TradesCount |-> 0, PnL |-> 0]
  /\ lastSignal = NoSignal
  /\ isRunning = [r \in Strategies |-> FALSE]
  /\ pendingOrders = <<>>
  /\ completedOrders = <<>>
  /\ monitors = <<>>
  /\ cancelTasks = {}
  /\ stopChan = [r \in Strategies |-> "open"]
  /\ emergency = [issued |-> FALSE, pending |-> {}]
  /\ nextOrderId = 1
  /\ broker = <<>>
  /\ pf = NewPriceFeed
  /\ pfLoops = <<>>
  /\ chans = [ch \in Channels |-> <<>>]
  /\ ctxDone = FALSE
  /\ pfCycles = <<>>
  /\ priceChan = <<>>
  /\ signalChan = <<>>
  /\ mu = "free"
  /\ runPc = "select"
  /\ hand = NoHand
  /\ strategyStops = 0
  /\ offered = 0
  /\ enqueued = <<>>
  /\ handed = <<>>
  /\ rmTasks = [c \in Strategies |-> NoCall]

StartSolo ==
  /\ StartMetrics
  /\ StartStrategies

Start(t) ==
  /\ now = t
  /\ dailyTradeCount = EmptyCounters
  /\ dailyLoss = EmptyCounters
  /\ lastResetTime = Truncate24h(now)
  /\ rmLog = [s \in Strategies |-> [d \in Days |-> [count |-> 0, loss |-> 0]]]
  /\ vsCall = NoValidate
  /\ StartSolo
  /\ StartObjects

\* the runner is built at the first instant of a day
Init == Start(0)

\* the RiskManager is built at the first instant of a day or later in the day
InitRisk == \E t \in 0..1 : Start(t)

\* a RiskManager built on day 0 that was given some trades of a strategy on
\* that day, and the arguments of a call of ValidateSignal to come
InitValidate ==
  \E t \in 0..1, name \in Strategies, counters \in ReachableCounters :
  \E args \in ValidateArgs(name, t) :
    /\ now = t
    /\ dailyTradeCount = [EmptyCounters EXCEPT ![name] = counters[1]]
    /\ dailyLoss = [EmptyCounters EXCEPT ![name] = counters[2]]
    /\ lastResetTime = Truncate24h(now)
    /\ rmLog = [s \in Strategies |-> [d \in Days |->
                  IF s = name /\ d = Day(now)
                  THEN [count |-> counters[1], loss |-> counters[2]]
                  ELSE [count |-> 0, loss |-> 0]]]
    /\ vsCall = args
    /\ StartSolo
    /\ StartObjects

\* the crossover strategies, initialized
InitCrossover ==
  /\ now = 0
  /\ dailyTradeCount = EmptyCounters
  /\ dailyLoss = EmptyCounters
  /\ lastResetTime = Truncate24h(now)
  /\ rmLog = [s \in Strategies |-> [d \in Days |-> [count |-> 0, loss |-> 0]]]
  /\ vsCall = NoValidate
  /\ StartMetrics
  /\ StartInitialized(CrossoverConfig)
  /\ StartObjects

\* the MovingAverageStrategy of the scenario, initialized
InitScenario ==
  /\ now = 0
  /\ dailyTradeCount = EmptyCounters
  /\ dailyLoss = EmptyCounters
  /\ lastResetTime = Truncate24h(now)
  /\ rmLog = [s \in Strategies |-> [d \in Days |-> [count |-> 0, loss |-> 0]]]
  /\ vsCall = NoValidate
  /\ StartMetrics
  /\ StartInitialized(ScenarioConfig)
  /\ StartObjects

\* the crossover strategies just built, and a config with any two periods
InitInitialize ==
  /\ now = 0
  /\ dailyTradeCount = EmptyCounters
  /\ dailyLoss = EmptyCounters
  /\ lastResetTime = Truncate24h(now)
  /\ rmLog = [s \in Strategies |-> [d \in Days |-> [count |-> 0, loss |-> 0]]]
  /\ vsCall = NoValidate
  /\ StartMetrics
  /\ mas = NewMovingAverageStrategy
  /\ ss = NewScalpingStrategy
  /\ ms = NewMomentumStrategy
  /\ stratOut = [mas |-> NoStrategyCall, ss |-> NoStrategyCall, ms |-> NoStrategyCall]
  /\ masEmitted = <<>>
  /\ stratFed = 0
  /\ stratOps = 0
  /\ \E short \in InitPeriods, long \in InitPeriods :
       initCall = [config |-> [short_period |-> short, long_period |-> long,
                               MaxPositionSize |-> Limits.MaxPositionSize],
                   mas |-> "none", ss |-> "none"]
  /\ StartObjects

\* a PerformanceMetrics just built, or one built PastDays days ago
InitMetrics ==
  \E n \in PastDays :
    /\ now = 0
    /\ dailyTradeCount = EmptyCounters
    /\ dailyLoss = EmptyCounters
    /\ lastResetTime = Truncate24h(now)
    /\ rmLog = [s \in Strategies |-> [d \in Days |-> [count |-> 0, loss |-> 0]]]
    /\ vsCall = NoValidate
    /\ pm = Past(n)
    /\ pmFed = [i \in 1..n |-> PastValue(i)]
    /\ pmCalls = 0
    /\ StartStrategies
    /\ StartObjects

vars ==
  <<position, trades, pnl, state, lastSignal, isRunning, pendingOrders, completedOrders,
    monitors, cancelTasks, stopChan, emergency, nextOrderId, broker, now, dailyTradeCount, dailyLoss, lastResetTime,
    rmCall, rmLog, pf, pfLoops, chans, ctxDone, pfCycles, priceChan, signalChan, mu,
    runPc, hand, strategyStops, offered, enqueued, handed, rmTasks, vsCall,
    pm, pmFed, pmCalls, mas, ss, ms, stratOut, masEmitted, stratFed, stratOps,
    initCall, earlyStops>>

----------------------------------------------------------------------------
(* The RiskManager on its own, called by any client *)

RiskNext ==
  \/ Tick
  \/ ValidateSignalCall
  \/ RecordTradeCall
  \/ ShouldStopStrategyCall
  \/ GetDailyStatsCall

SpecRisk == InitRisk /\ [][RiskNext]_vars

(* One runner fed ticks, with its RiskManager and OrderManager.  The monitors *)
(* of its pending orders change the order tables only; they are followed in  *)
(* SpecOrders.                                                               *)

Next ==
  \/ RunStart(Runner)
  \/ RunPriceTick
  \/ TimePasses

Spec == Init /\ [][Next]_vars

----------------------------------------------------------------------------
(* The shared OrderManager with its goroutines, the runners' lifecycle and    *)
(* one emergency stop                                                         *)

OrdersNext ==
  \/ SubmitOrderCall
  \/ \E orderID \in DOMAIN monitors : MonitorTick(orderID)
  \/ \E orderID \in DOMAIN monitors : MonitorTimeout(orderID)
  \/ EmergencyStop
  \/ \E orderID \in cancelTasks : CancelTask(orderID)
  \/ \E r \in Strategies : RunStart(r)
  \/ \E r \in Strategies : RunExit(r)
  \/ TimePasses

SpecOrders == Init /\ [][OrdersNext]_vars

----------------------------------------------------------------------------
(* One PriceFeed with its subscribers                                         *)

FeedNext ==
  \/ FeedStart /\ FeedFrame
  \/ \E l \in DOMAIN pfLoops : FeedFetch(l) /\ FeedFrame
  \/ \E l \in DOMAIN pfLoops : FeedSend(l) /\ FeedFrame
  \/ \E l \in DOMAIN pfLoops : FeedLoopExit(l) /\ FeedFrame
  \/ FeedStop /\ FeedFrame
  \/ \E ch \in Channels : Subscribe(ch) /\ FeedFrame
  \/ \E ch \in Channels : UnsubscribeCall(ch) /\ FeedFrame
  \/ \E ch \in Channels : Receive(ch) /\ FeedFrame

SpecFeed == Init /\ [][FeedNext]_vars

----------------------------------------------------------------------------
(* One runner with the loop of Run on its queues, Stop and the context        *)

RunNext ==
  \/ RunStart(Runner)
  \/ ProcessPriceTickCall
  \/ RunTakeTick
  \/ RunProcessTick
  \/ QueueSignal
  \/ RunTakeSignal
  \/ RunAppendTrade
  \/ RunCountTrade
  \/ StopCall(Runner)
  \/ CancelContext
  \/ RunExit(Runner)

SpecRun == Init /\ [][RunNext]_vars

\* Go's select takes each ready case with equal chance, and a goroutine that
\* can run does run
SpecRunFair ==
  /\ SpecRun
  /\ SF_vars(RunExit(Runner))
  /\ WF_vars(RunProcessTick)
  /\ WF_vars(RunAppendTrade)
  /\ WF_vars(RunCountTrade)

----------------------------------------------------------------------------
(* One runner whose Run was launched with go sr.Run(ctx): Stop may be called  *)
(* before the goroutine has marked the runner running                         *)

LaunchNext ==
  \/ RunStart(Runner)
  \/ StopBeforeRunning(Runner)
  \/ ProcessPriceTickCall
  \/ RunTakeTick
  \/ RunProcessTick
  \/ StopCall(Runner)
  \/ CancelContext
  \/ RunExit(Runner)

SpecLaunch == Init /\ [][LaunchNext]_vars

----------------------------------------------------------------------------
(* The RiskManager shared by the runners                                      *)

SharedNext ==
  \/ Tick
  \/ \E c \in Strategies : SharedCallBegin(c)
  \/ \E c \in Strategies : SharedCallEnd(c)

SpecRiskShared == InitRisk /\ [][SharedNext]_vars

----------------------------------------------------------------------------
(* ValidateSignal on arguments drawn at the start                             *)

ValidateNext ==
  \/ Tick
  \/ ValidateSignalApply

SpecValidate == InitValidate /\ [][ValidateNext]_vars

----------------------------------------------------------------------------
(* One PerformanceMetrics given the value of the portfolio as time passes     *)

MetricsNext ==
  \/ MetricsTimePasses
  \/ UpdatePortfolioValueCall

SpecMetrics == InitMetrics /\ [][MetricsNext]_vars

----------------------------------------------------------------------------
(* A MovingAverageStrategy and a ScalpingStrategy given the same ticks         *)

CrossoverNext ==
  \/ StrategyTimePasses
  \/ CrossoverTick
  \/ MovingAverageStop
  \/ MovingAverageReset
  \/ ScalpingStop
  \/ ScalpingReset

SpecCrossover == InitCrossover /\ [][CrossoverNext]_vars

----------------------------------------------------------------------------
(* A MovingAverageStrategy given ticks that may have waited in a queue, over   *)
(* the time of its cooldown                                                    *)

CooldownNext ==
  \/ CooldownTimePasses
  \/ MovingAverageTick
  \/ MovingAverageStop
  \/ MovingAverageReset

SpecCooldown == InitCrossover /\ [][CooldownNext]_vars

----------------------------------------------------------------------------
(* A MomentumStrategy given ticks with a volume                                *)

MomentumNext ==
  \/ StrategyTimePasses
  \/ MomentumTick
  \/ MomentumStop
  \/ MomentumReset

SpecMomentum == InitCrossover /\ [][MomentumNext]_vars

----------------------------------------------------------------------------
(* A MomentumStrategy given the ticks of the PriceFeed                         *)

MomentumFeedNext ==
  \/ StrategyTimePasses
  \/ MomentumFeedTick
  \/ MomentumStop
  \/ MomentumReset

SpecMomentumFeed == InitCrossover /\ [][MomentumFeedNext]_vars

----------------------------------------------------------------------------
(* A MovingAverageStrategy with periods 5 and 20 given 25 rising prices        *)

ScenarioNext ==
  \/ StrategyTimePasses
  \/ ScenarioTick

SpecScenario == InitScenario /\ [][ScenarioNext]_vars

(* Specification of Initialize of the crossover strategies: the config holds
   any two periods, and ticks go to the strategies that took it *)

InitializeNext ==
  \/ MovingAverageInitializeCall
  \/ ScalpingInitializeCall
  \/ InitializedTick
  \/ MovingAverageStop
  \/ ScalpingStop

SpecInitialize == InitInitialize /\ [][InitializeNext]_vars

----------------------------------------------------------------------------
(* Properties of the runner *)

\* the step sends the brokerage an order of the given side
Placed(side) ==
  /\ Len(broker') = Len(broker) + 1
  /\ broker'[Len(broker')].op = "place"
  /\ broker'[Len(broker')].side = side

\* C1: no step submits a buy order while the runner's position.Quantity > 0
C1_NoBuyWhilePositionOpen ==
  [][Placed("buy") => position.Quantity <= 0]_vars

\* a Buy signal was accepted by the risk checks after a partial sell, with the
\* position still open, and no order was sent for it
C1_Witness ==
  /\ Len(trades) = 2 /\ Len(broker) = 2
  /\ trades[2].Side = "sell"
  /\ position.Quantity > 0
  /\ lastSignal.Type = SignalBuy
  /\ lastSignal.Timestamp > trades[2].Timestamp

\* The trade log replayed from trade i on: the quantity held, and the quantity
\* and cost of the buys since the position was last flat.
RECURSIVE SinceFlat(_, _, _)
SinceFlat(log, i, acc) ==
  IF i > Len(log) THEN acc
  ELSE LET tr == log[i]
           next ==
             IF tr.Side = "buy"
             THEN [held |-> acc.held + tr.Quantity,
                   bought |-> acc.bought + tr.Quantity,
                   cost |-> acc.cost + tr.Quantity * tr.Price]
             ELSE IF acc.held - tr.Quantity <= 0
             THEN [held |-> 0, bought |-> 0, cost |-> 0]
             ELSE [acc EXCEPT !.held = @ - tr.Quantity]
       IN SinceFlat(log, i + 1, next)

BuysSinceFlat == SinceFlat(trades, 1, [held |-> 0, bought |-> 0, cost |-> 0])

ProfitGateOpen(pos, price) ==
  LET cost == pos.Quantity * pos.AveragePrice
      profit == pos.Quantity * price - cost
  IN IF cost > 0
     THEN profit * 100 <= (0 - 2) * cost \/ profit * 200 >= cost
     ELSE profit > 0

\* C3: a step submits a sell order only for a signal whose price puts the
\* position's profit percent at or below the stop loss or at or above the
\* minimum profit, and a step that submits no order leaves the position and the
\* trade log as they were
C3_SellOnlyThroughProfitGate ==
  [][/\ Placed("sell") => ProfitGateOpen(position, lastSignal'.Price)
     /\ broker' = broker => position' = position /\ trades' = trades]_vars

\* a position bought at 200 was sold on a signal at 196: the forced exit
C3_Witness ==
  /\ Len(trades) = 2
  /\ trades[1].Side = "buy" /\ trades[1].Price = 200
  /\ trades[2].Side = "sell" /\ trades[2].Timestamp = lastSignal.Timestamp
  /\ lastSignal.Type = SignalSell /\ lastSignal.Price = 196

\* the trades of the log executed on the day of t
TradesToday(log, t) ==
  Cardinality({i \in 1..Len(log) : Day(log[i].Timestamp) = Day(t)})

\* C6: once MaxDailyTrades trades of the runner were executed today, no step
\* submits an order
C6_NoOrderAfterDailyTrades ==
  [][TradesToday(trades, now) >= MaxDailyTrades => broker' = broker]_vars

\* The losses the sells of the log realized on the given day, replayed from
\* trade i on with the quantity held and its average cost.
RECURSIVE LossesOn(_, _, _, _, _)
LossesOn(log, i, held, avg, day) ==
  IF i > Len(log) THEN 0
  ELSE LET tr == log[i]
       IN IF tr.Side = "buy"
          THEN LossesOn(log, i + 1, held + tr.Quantity,
                        (held * avg + tr.Quantity * tr.Price) \div (held + tr.Quantity),
                        day)
          ELSE LET result == tr.Quantity * tr.Price - tr.Quantity * avg
                   loss == IF result < 0 /\ Day(tr.Timestamp) = day
                           THEN 0 - result ELSE 0
                   left == IF held - tr.Quantity <= 0 THEN 0 ELSE held - tr.Quantity
               IN loss + LossesOn(log, i + 1, left, IF left = 0 THEN 0 ELSE avg, day)

RealizedLossToday == LossesOn(trades, 1, 0, 0, Day(now))

\* C7: once the losses realized today reach MaxDailyLoss, no step submits an
\* order for the rest of the day
C7_NoOrderAfterDailyLoss ==
  [][RealizedLossToday >= MaxDailyLoss => broker' = broker]_vars

----------------------------------------------------------------------------
(* Properties of the RiskManager *)

\* C4: a ValidateSignal call that finds the strategy's daily trade count at
\* MaxDailyTrades or above returns false
C4_RejectsAtDailyTradeLimit ==
  rmCall.op = "ValidateSignal" /\ dailyTradeCount[rmCall.name] >= MaxDailyTrades
    => rmCall.result = FALSE

\* a signal that passes every other check was rejected with the count exactly
\* at the limit
C4_Witness ==
  /\ rmCall.op = "ValidateSignal"
  /\ dailyTradeCount[rmCall.name] = MaxDailyTrades
  /\ rmCall.others /\ ~rmCall.result

\* C5: whenever the RiskManager has been called on the present day, its
\* counters are, for every strategy, exactly what RecordTrade was given on the
\* present day: nothing of an earlier day, and all of today
C5_CountersAreTodaysTrades ==
  rmCall.op # "none" /\ rmCall.day = Day(now) =>
    \A s \in Strategies :
      /\ dailyTradeCount[s] = rmLog[s][Day(now)].count
      /\ dailyLoss[s] = rmLog[s][Day(now)].loss

\* trades were recorded yesterday and today, and a call of today sees only
\* today's
C5_Witness ==
  /\ Day(now) = 1 /\ rmCall.day = 1 /\ rmCall.op = "ValidateSignal"
  /\ rmLog[rmCall.name][0].count > 0 /\ rmLog[rmCall.name][0].loss > 0
  /\ rmLog[rmCall.name][1].count > 0
  /\ dailyTradeCount[rmCall.name] = rmLog[rmCall.name][1].count

----------------------------------------------------------------------------
(* Properties of the OrderManager and of the emergency stop *)

\* the records of the completed table that carry the order id
CompletedOf(comp, orderID) == SelectSeq(comp, LAMBDA rec : rec.ID = orderID)

\* the step is the monitor of the order taking its timeout case
MonitorTimesOut(orderID) ==
  /\ monitors[orderID].pc = "select"
  /\ monitors'[orderID].pc = "timeout"

\* the timeout step moves the order, pending until then, to the completed
\* table with the given status and errorMsg "timeout", as its only record there
TimeoutCompletesAs(orderID, status) ==
  /\ orderID \notin DOMAIN pendingOrders'
  /\ CompletedOf(completedOrders, orderID) = <<>>
  /\ CompletedOf(completedOrders', orderID) =
       <<[pendingOrders[orderID] EXCEPT !.Status = status, !.ErrorMsg = "timeout"]>>

\* no order has two records with errorMsg "timeout" after the step
TimeoutRecordedOnce ==
  \A orderID \in DOMAIN monitors' :
    Len(SelectSeq(CompletedOf(completedOrders', orderID),
                  LAMBDA rec : rec.ErrorMsg = "timeout")) <= 1

TerminalStatuses == {"filled", "cancelled", "failed"}

\* the order tables are well formed: no id is in both, no id the brokerage gave
\* has two completed records, completed records are terminal and pending ones
\* are not
OrderTablesWellFormed(pend, comp) ==
  /\ \A orderID \in DOMAIN pend :
       /\ CompletedOf(comp, orderID) = <<>>
       /\ pend[orderID].ID = orderID
       /\ pend[orderID].Status \notin TerminalStatuses
  /\ \A i \in 1..Len(comp) :
       /\ comp[i].Status \in TerminalStatuses
       /\ comp[i].ID # 0 => Len(CompletedOf(comp, comp[i].ID)) = 1

\* C9: under every interleaving of submissions, monitor checks, monitor
\* timeouts and the cancellations of CancelAllOrders, an order id is never in the
\* pending and the completed table at once, has at most one completed record,
\* which has a terminal status, and completed records never change or disappear
C9_OrderCompletesOnce ==
  [][/\ OrderTablesWellFormed(pendingOrders', completedOrders')
     /\ Len(completedOrders') >= Len(completedOrders)
     /\ SubSeq(completedOrders', 1, Len(completedOrders)) = completedOrders]_vars

\* one order was filled by its monitor and another cancelled by the emergency
\* stop while the first one's monitor was still running
C9_Witness ==
  /\ \E i \in 1..Len(completedOrders) :
       /\ completedOrders[i].Status = "filled"
       /\ completedOrders[i].ID \in DOMAIN monitors
       /\ monitors[completedOrders[i].ID].pc = "done"
  /\ \E i \in 1..Len(completedOrders) :
       /\ completedOrders[i].Status = "cancelled"
       /\ completedOrders[i].ErrorMsg = "emergency_stop"
  /\ cancelTasks = {}

\* the emergency stop has run its course: every cancelOrder goroutine it
\* started has run and every runner it signalled has left its loop
EmergencyStopSettled ==
  /\ emergency.issued
  /\ cancelTasks = {}
  /\ \A r \in Strategies : stopChan[r] = "closed" => ~isRunning[r]

\* the brokerage was asked to cancel the order
CancelIssued(orderID) ==
  \E i \in 1..Len(broker) : broker[i].op = "cancel" /\ broker[i].id = orderID

\* C10: once an emergency stop issued with two orders pending has run its
\* course, the brokerage was asked to cancel each of the two, neither is
\* pending, and no runner is running
C10_EmergencyStopCancelsBoth ==
  EmergencyStopSettled /\ Cardinality(emergency.pending) = 2 =>
    /\ \A orderID \in emergency.pending :
         CancelIssued(orderID) /\ orderID \notin DOMAIN pendingOrders
    /\ \A r \in Strategies : ~isRunning[r]

----------------------------------------------------------------------------
(* Properties of a rejected submission *)

\* the step sends the brokerage an order that it rejects: it gives the order
\* no id
Rejected ==
  /\ Len(broker') = Len(broker) + 1
  /\ broker'[Len(broker')].op = "place"
  /\ nextOrderId' = nextOrderId

\* C11: a step whose order the brokerage rejects appends exactly one record,
\* with status "failed", to the completed table, adds nothing to the pending
\* table, starts no monitor, sends the brokerage that one placement only, and
\* leaves the runner's position, trade log and trade count unchanged
C11_RejectedSubmissionFailsOnce ==
  [][Rejected =>
       /\ Len(completedOrders') = Len(completedOrders) + 1
       /\ SubSeq(completedOrders', 1, Len(completedOrders)) = completedOrders
       /\ completedOrders'[Len(completedOrders')].Status = "failed"
       /\ pendingOrders' = pendingOrders
       /\ monitors' = monitors
       /\ OrdersPlaced' = OrdersPlaced + 1
       /\ position' = position
       /\ trades' = trades
       /\ state'.TradesCount = state.TradesCount]_vars

\* a sell of an open position was rejected by the brokerage: the position and
\* the one trade of the log are as the buy left them
C11_Witness ==
  /\ Len(trades) = 1 /\ trades[1].Side = "buy"
  /\ position.Quantity = trades[1].Quantity
  /\ state.TradesCount = 1
  /\ Len(broker) = 2 /\ broker[2].side = "sell"
  /\ Len(completedOrders) >= 1
  /\ completedOrders[Len(completedOrders)].Status = "failed"
  /\ completedOrders[Len(completedOrders)].Side = "sell"

----------------------------------------------------------------------------
(* Properties of the position against the fate of the orders *)

\* the step records an order as filled
FillRecorded ==
  /\ Len(completedOrders') = Len(completedOrders) + 1
  /\ completedOrders'[Len(completedOrders')].Status = "filled"

\* C12: the runner's position changes, and a Trade is added to its trade log,
\* only in a step in which an order of the runner is filled
C12_PositionChangesOnlyOnFill ==
  [][position' # position \/ trades' # trades => FillRecorded]_vars

----------------------------------------------------------------------------
(* Properties of the PriceFeed *)

\* the step is a turn of the broadcast of loop l
BroadcastTurn(l) ==
  /\ l \in DOMAIN pfLoops
  /\ pfLoops[l].pc = "broadcast"
  /\ pfLoops'[l] # pfLoops[l]

\* the step is a fetch that gave a quote
FetchedQuote ==
  /\ Len(pfCycles') = Len(pfCycles) + 1
  /\ pfCycles'[Len(pfCycles')] = "quote"

\* C13: a fetch that gave a quote starts a broadcast to all the subscribers of
\* that moment, and every turn of a broadcast goes on to the next subscriber
\* whatever the state of the channels: the subscriber of the turn gets the
\* tick appended to its channel if the channel has room, and keeps its channel
\* as it was if it is full; no other channel changes, and the broadcast ends
\* after the turn of the last subscriber
C13_BroadcastSkipsFullSubscriberOnly ==
  [][/\ FetchedQuote =>
          \E l \in DOMAIN pfLoops :
            /\ pfLoops'[l] # pfLoops[l] \/ pf.subscribers = <<>>
            /\ pf.subscribers # <<>> =>
                 /\ pfLoops'[l].pc = "broadcast"
                 /\ pfLoops'[l].subs = pf.subscribers
                 /\ pfLoops'[l].next = 1
                 /\ pfLoops'[l].tick = pf'.lastTick
     /\ \A l \in DOMAIN pfLoops :
          BroadcastTurn(l) =>
            LET loop == pfLoops[l]
                ch == loop.subs[loop.next]
            IN /\ chans'[ch] = IF Len(chans[ch]) < ChanCap
                               THEN Append(chans[ch], loop.tick)
                               ELSE chans[ch]
               /\ \A other \in Channels \ {ch} : chans'[other] = chans[other]
               /\ IF loop.next < Len(loop.subs)
                  THEN /\ pfLoops'[l].pc = "broadcast"
                       /\ pfLoops'[l].next = loop.next + 1
                       /\ pfLoops'[l].tick = loop.tick
                       /\ pfLoops'[l].subs = loop.subs
                  ELSE pfLoops'[l].pc = "select"]_vars

\* a broadcast to two subscribers is over: the channel of the first was full
\* and kept the older tick, the second got the tick of the broadcast
C13_Witness ==
  \E l \in DOMAIN pfLoops :
    /\ pfLoops[l].pc = "select"
    /\ pfLoops[l].sent = <<FALSE, TRUE>>
    /\ Len(pf.subscribers) = 2
    /\ pf.subscribers[1] # pf.subscribers[2]
    /\ chans[pf.subscribers[1]] # <<>>
    /\ chans[pf.subscribers[1]][1] # pf.lastTick
    /\ chans[pf.subscribers[2]] = <<pf.lastTick>>

\* the step is a fetch that failed
FetchFailed ==
  /\ Len(pfCycles') = Len(pfCycles) + 1
  /\ pfCycles'[Len(pfCycles')] \in {"error", "empty"}

\* C14: a fetch that fails, by an error or by an empty result, changes no
\* channel and not lastTick, leaves the feed running as it was, starts no
\* broadcast and leaves every loop where it was, at its select
C14_FailedFetchDeliversNothing ==
  [][FetchFailed =>
       /\ chans' = chans
       /\ pf' = pf
       /\ pfLoops' = pfLoops
       /\ \E l \in DOMAIN pfLoops : pfLoops[l].pc = "select"]_vars

\* after a fetch that failed, the next fetch of the running feed gave a quote
\* that reached a subscriber
C14_Witness ==
  /\ Len(pfCycles) = 2
  /\ pfCycles[1] \in {"error", "empty"}
  /\ pfCycles[2] = "quote"
  /\ pf.isRunning
  /\ \E ch \in Channels : chans[ch] = <<pf.lastTick>>

----------------------------------------------------------------------------
(* Properties of the loop of Run *)

\* the step changes the runner's position, trade log, trade counter or pnl
Mutates ==
  \/ position' # position
  \/ trades' # trades
  \/ state'.TradesCount # state.TradesCount
  \/ pnl' # pnl

\* C15: every step that changes the runner's position, trade log, trade
\* counter or pnl is taken while the goroutine of Run holds the runner's lock
\* exclusively
C15_MutationUnderLock ==
  [][Mutates => mu = "run"]_vars

\* a reader's RLock succeeds
ReaderCanLock == mu = "free"

\* C16: whenever a reader can take the runner's lock, TradesCount is the
\* length of the trade log and the position is the one the trades of the log
\* give: the quantity held is the quantity bought and not sold again
C16_ReaderSeesPositionOfLastTrade ==
  ReaderCanLock =>
    /\ state.TradesCount = Len(trades)
    /\ position.Quantity = BuysSinceFlat.held
    /\ state.Position = position

\* Stop was called on the runner while its loop was active
Stopped(r) == stopChan[r] # "open"

\* C18: once Stop was called on the runner with its loop active, or the
\* context is cancelled while the loop is active, the runner eventually
\* reports not running and keeps doing so
C18_StopLeadsToExit ==
  (isRunning[Runner] /\ (Stopped(Runner) \/ ctxDone)) ~> [](~isRunning[Runner])

\* the ticks the goroutine of Run has taken from priceChan and not handed over
InHand == IF runPc = "tick" THEN <<hand.tick>> ELSE <<>>

\* C19: the ticks that entered priceChan are, in the order they entered, the
\* ticks handed to the strategy, then the tick being processed, then the ticks
\* still queued: none is handed over twice or out of order, and a tick offered
\* to a full queue appears nowhere
C19_TicksHandedInOrder ==
  /\ enqueued = handed \o InHand \o priceChan
  /\ \A i, j \in 1..Len(enqueued) :
       i < j => enqueued[i].Timestamp < enqueued[j].Timestamp
  /\ Len(enqueued) <= offered

\* the first two ticks were queued, the third found the queue full and was
\* dropped, and the two queued ones were handed over in their order
C19_Witness ==
  /\ offered = 3
  /\ Len(handed) = 2
  /\ handed[1].Timestamp = 1 /\ handed[2].Timestamp = 2
  /\ enqueued = handed
  /\ priceChan = <<>>

----------------------------------------------------------------------------
(* Properties of the shared RiskManager *)

\* C17: whenever no call is in progress and the counters are those of the
\* present day, they hold for every strategy exactly the trades and losses
\* given to RecordTrade on the present day: none was lost to another runner's
\* call
C17_NoRecordedTradeLost ==
  /\ \A c \in Strategies : rmTasks[c].pc = "idle"
  /\ lastResetTime = Truncate24h(now)
  => \A s \in Strategies :
       /\ dailyTradeCount[s] = rmLog[s][Day(now)].count
       /\ dailyLoss[s] = rmLog[s][Day(now)].loss

----------------------------------------------------------------------------
(* Properties of ValidateSignal *)

\* the strategy of the call is below both daily limits when the checks run
BelowDailyLimits ==
  /\ dailyTradeCount[vsCall.name] < vsCall.limits.MaxDailyTrades
  /\ dailyLoss[vsCall.name] < vsCall.limits.MaxDailyLoss

\* the value of the order fits the cap, alone and on top of the quantity held
FitsPositionCap ==
  /\ vsCall.signal.Quantity * vsCall.signal.Price <= vsCall.limits.MaxPositionSize
  /\ vsCall.positionQty * vsCall.signal.Price
       + vsCall.signal.Quantity * vsCall.signal.Price <= vsCall.limits.MaxPositionSize

\* there is no last signal, or it is at least the cooldown old at the call
CooledDown ==
  \/ vsCall.last = NoSignal
  \/ vsCall.at - vsCall.last.Timestamp >= vsCall.limits.CooldownPeriod

\* C20: a call of ValidateSignal for a strategy below its daily trade and loss
\* limits returns true exactly if the order of a Buy fits the position cap
\* alone and with the quantity held, the last signal is none or at least the
\* cooldown old, and the confidence is at least the floor
C20_ValidateSignalExact ==
  vsCall.called /\ BelowDailyLimits =>
    (vsCall.out <=> /\ vsCall.signal.Type = SignalBuy => FitsPositionCap
                    /\ CooledDown
                    /\ vsCall.signal.Confidence >= ConfidenceFloor)

\* a Buy whose value is exactly the cap, with the last signal exactly the
\* cooldown old and the confidence exactly the floor, for a strategy with
\* trades and a loss of today below the limits, is accepted
C20_Witness ==
  /\ vsCall.called /\ vsCall.out
  /\ vsCall.signal.Type = SignalBuy
  /\ vsCall.signal.Quantity * vsCall.signal.Price = vsCall.limits.MaxPositionSize
  /\ vsCall.last # NoSignal
  /\ vsCall.at - vsCall.last.Timestamp = vsCall.limits.CooldownPeriod
  /\ vsCall.signal.Confidence = ConfidenceFloor
  /\ dailyTradeCount[vsCall.name] = 2 /\ dailyLoss[vsCall.name] = 3

----------------------------------------------------------------------------
(* Properties of updatePositionFromTrade *)

\* the step appends a sell to the trade log
SellApplied ==
  /\ Len(trades') = Len(trades) + 1
  /\ trades'[Len(trades')].Side = "sell"

\* C21: a step that applies a sell of quantity q at price p adds q*p minus q
\* times the average price minus the commission to pnl (and state.PnL follows),
\* and takes q off position.Quantity; if a quantity is left the average price is
\* as before, and if none is left the position is the zero position
C21_SellRealizesAgainstAverage ==
  [][SellApplied =>
       LET sell == trades'[Len(trades')]
           q == sell.Quantity
       IN /\ pnl' = pnl + q * sell.Price - q * position.AveragePrice - sell.Commission
          /\ state'.PnL = pnl'
          /\ position'.Quantity = position.Quantity - q
          /\ position'.Quantity > 0 => position'.AveragePrice = position.AveragePrice
          /\ position'.Quantity = 0 => position' = FlatPosition]_vars

\* two units bought at 200, one sold at another price, then the last one sold:
\* the position is the zero position and pnl is what the two sells realized
C21_Witness ==
  /\ Len(trades) = 3
  /\ trades[1].Side = "buy" /\ trades[1].Quantity = 2 /\ trades[1].Price = 200
  /\ trades[2].Side = "sell" /\ trades[2].Quantity = 1 /\ trades[2].Price # 200
  /\ trades[3].Side = "sell" /\ trades[3].Quantity = 1 /\ trades[3].Price > 0
  /\ position = FlatPosition
  /\ pnl = trades[2].Price + trades[3].Price - 400

----------------------------------------------------------------------------
(* Properties of PerformanceMetrics *)

\* the step is a call of UpdatePortfolioValue
Updated == pmCalls' = pmCalls + 1

\* C22: a call of UpdatePortfolioValue with the value of the call before it
\* leaves peakValue, MaxDrawdown and MaxDrawdownPercent as that call left them
C22_SameValueTwiceKeepsDrawdown ==
  [][(/\ Updated
      /\ pmFed # <<>>
      /\ pmFed'[Len(pmFed')] = pmFed[Len(pmFed)])
     => /\ pm'.peakValue = pm.peakValue
        /\ pm'.MaxDrawdown = pm.MaxDrawdown
        /\ pm'.MaxDrawdownPercent = pm.MaxDrawdownPercent]_vars

\* a new PerformanceMetrics given 8000 twice: the first call set the largest
\* drawdown, 2000 below the peak of 10000, and the second call kept it
C22_Witness ==
  /\ pmFed = <<8000, 8000>>
  /\ pm.peakValue = 10000
  /\ pm.MaxDrawdown = 2000
  /\ pm.MaxDrawdownPercent = 20

Largest(S) == CHOOSE x \in S : \A y \in S : y <= x

\* the largest of the initial capital and the first k values fed
PeakAt(k) == Largest({InitialCapital} \cup {pmFed[i] : i \in 1..k})

\* C29: peakValue is the largest of the initial capital and the values fed so
\* far, MaxDrawdown is the largest, over the calls, of the peak at the call
\* minus the value fed (0 before the first call), and no step lowers either
C29_PeakAndMaxDrawdown ==
  /\ [](/\ pm.peakValue = PeakAt(Len(pmFed))
        /\ pm.MaxDrawdown = Largest({0} \cup {PeakAt(k) - pmFed[k] : k \in 1..Len(pmFed)}))
  /\ [][/\ pm'.peakValue >= pm.peakValue
        /\ pm'.MaxDrawdown >= pm.MaxDrawdown]_vars

\* a new PerformanceMetrics given 12500, 8000 and 10000: the peak is the
\* first value and the largest drawdown is that of the second call
C29_Witness ==
  /\ pmFed = <<12500, 8000, 10000>>
  /\ pm.peakValue = 12500
  /\ pm.MaxDrawdown = 4500
  /\ pm.currentDrawdown = 2500

\* C30: dailyReturns never has more than 252 entries; a step changes it only
\* by a call of UpdatePortfolioValue made a day or more after DayStartTime,
\* which appends one return, after dropping the oldest entry when there were
\* 252 already
C30_DailyReturnsCapped ==
  [][/\ Len(pm'.dailyReturns) <= MaxDailyReturns
     /\ \/ pm'.dailyReturns = pm.dailyReturns
        \/ /\ Updated
           /\ now - pm.DayStartTime >= DayLen
           /\ LET return == pm'.TotalPnL - pm.DayStartPnL
                  kept == IF Len(pm.dailyReturns) < MaxDailyReturns
                          THEN pm.dailyReturns ELSE Tail(pm.dailyReturns)
              IN pm'.dailyReturns = Append(kept, return)]_vars

\* a history of 251 returns that took two more: the oldest one (-2000) was
\* dropped, the next ones moved up and the two new ones are the last
C30_Witness ==
  /\ Len(pm.dailyReturns) = MaxDailyReturns
  /\ pmCalls = 2
  /\ pm.DayStartTime = 2 * DayLen
  /\ pm.dailyReturns[1] = 2000
  /\ pm.dailyReturns[2] = 2500
  /\ pm.dailyReturns[MaxDailyReturns - 2] = PastValue(MaxDailyReturns - 1)
                                              - PastValue(MaxDailyReturns - 2)
  /\ pm.dailyReturns[MaxDailyReturns - 1] # pm.dailyReturns[MaxDailyReturns]

----------------------------------------------------------------------------
(* Properties of the strategies *)

\* C23: in the scenario, every Buy of the MovingAverageStrategy comes at the
\* 20th tick or later with a confidence above 0.5 and of 1.0 at most, and
\* once the 25 prices are processed a Buy has been emitted
C23_RisingPricesGiveBuy ==
  /\ \A i \in 1..Len(masEmitted) :
       masEmitted[i].Type = SignalBuy =>
         /\ masEmitted[i].tick >= ScenarioConfig.long_period
         /\ Gt(masEmitted[i].Confidence, Rat(1, 2))
         /\ Le(masEmitted[i].Confidence, Whole(1))
  /\ stratFed = ScenarioTicks =>
       \E i \in 1..Len(masEmitted) : masEmitted[i].Type = SignalBuy

\* the step is a call of ProcessTick
TickProcessed == stratFed' = stratFed + 1

\* C24: a call of ProcessTick returns no signal while the strategy holds fewer
\* prices than its long period (MovingAverage, Scalping) or its lookback
\* period (Momentum), also after a Stop or a Reset
C24_NoSignalBeforeWindowFull ==
  [][TickProcessed =>
       /\ stratOut'.mas.signals # NoSignals
            => Len(mas'.prices) >= mas'.longPeriod
       /\ stratOut'.ss.signals # NoSignals
            => Len(ss'.prices) >= ss'.longPeriod
       /\ stratOut'.ms.signals # NoSignals
            => Len(ms'.prices) >= ms'.lookbackPeriod]_vars

\* C25: every signal of the MomentumStrategy is a Buy or a Sell, and its tick
\* finds the momentum beyond the threshold and has a volume above the average
\* volume times the multiplier
C25_MomentumSignalsConfirmed ==
  [][TickProcessed /\ stratOut'.ms.signals # NoSignals =>
       /\ stratOut'.ms.signals[1].Type \in {SignalBuy, SignalSell}
       /\ Gt(RAbs(ms'.momentum), ms'.momentumThreshold)
       /\ Gt(Whole(stratOut'.ms.tick.Volume), RMul(ms'.avgVolume, ms'.volumeMultiplier))]_vars

\* the short mean of the prices was at or below the long one a tick ago and
\* is above it now, and the reverse
CrossedAbove(prices, short, long) ==
  /\ Len(prices) > long
  /\ Le(MeanTo(prices, short, Len(prices) - 1), MeanTo(prices, long, Len(prices) - 1))
  /\ Gt(MeanTo(prices, short, Len(prices)), MeanTo(prices, long, Len(prices)))

CrossedBelow(prices, short, long) ==
  /\ Len(prices) > long
  /\ Ge(MeanTo(prices, short, Len(prices) - 1), MeanTo(prices, long, Len(prices) - 1))
  /\ Lt(MeanTo(prices, short, Len(prices)), MeanTo(prices, long, Len(prices)))

\* the volatility of the last prices, five of them at most
RecentVolatility(prices) ==
  calculateVolatility(IF Len(prices) > 5 THEN LastN(prices, 5) ELSE prices)

\* C26: the ScalpingStrategy returns a Buy only on a tick where the short mean
\* crosses above the long one, a Sell only where it crosses below, and a
\* signal only when the volatility of the recent prices is at least the
\* volatility threshold
C26_ScalpingSignalsOnCrossover ==
  [][TickProcessed /\ stratOut'.ss.signals # NoSignals =>
       LET type == stratOut'.ss.signals[1].Type
       IN /\ type = SignalBuy => CrossedAbove(ss'.prices, ss'.shortPeriod, ss'.longPeriod)
          /\ type = SignalSell => CrossedBelow(ss'.prices, ss'.shortPeriod, ss'.longPeriod)
          /\ Ge(RecentVolatility(ss'.prices), ss'.volatilityThreshold)]_vars

\* C27: two successive signals of the MovingAverageStrategy (since its last
\* Reset) are five minutes apart or more, by the time they were emitted at or
\* by their timestamps
C27_SignalsFiveMinutesApart ==
  \A i \in 1..(Len(masEmitted) - 1) :
    \/ masEmitted[i + 1].at - masEmitted[i].at >= 5 * Minute
    \/ masEmitted[i + 1].Timestamp - masEmitted[i].Timestamp >= 5 * Minute

\* the two periods of the config Initialize was called with
Short == initCall.config.short_period

Long == initCall.config.long_period

\* C28: Initialize of MovingAverageStrategy and of ScalpingStrategy returns an
\* error whenever the short period is not below the long period, and after an
\* Initialize that returned nil no ProcessTick reads outside prices
C28_InitializeValidatesPeriods ==
  /\ initCall.mas # "none" /\ Short >= Long => initCall.mas = "error"
  /\ initCall.ss # "none" /\ Short >= Long => initCall.ss = "error"
  /\ initCall.mas = "ok" => ~mas.panicked
  /\ initCall.ss = "ok" => ~ss.panicked

\* both took the config and have processed more prices than the long period
C28_Witness ==
  /\ initCall.mas = "ok" /\ initCall.ss = "ok"
  /\ stratOut.mas.called /\ stratOut.ss.called
  /\ Len(mas.prices) > mas.longPeriod
  /\ Len(ss.prices) > ss.longPeriod

----------------------------------------------------------------------------
(* Properties of GetOrderStats *)

\* the completed records with the status
WithStatus(status) == {i \in 1..Len(completedOrders) : completedOrders[i].Status = status}

\* C31: GetOrderStats reports the size of the pending table as PendingOrders,
\* the number of completed records as TotalOrders, per-status counts that add
\* up to TotalOrders, and FilledOrders / TotalOrders as FillRate, 0 without
\* completed records
C31_OrderStatsAddUp ==
  LET stats == GetOrderStats(pendingOrders, completedOrders)
  IN /\ stats.PendingOrders = Cardinality(DOMAIN pendingOrders)
     /\ stats.TotalOrders = Len(completedOrders)
     /\ stats.FilledOrders = Cardinality(WithStatus("filled"))
     /\ stats.FilledOrders + stats.CancelledOrders + stats.FailedOrders = stats.TotalOrders
     /\ IF stats.TotalOrders > 0
        THEN /\ stats.FillRate.den > 0
             /\ stats.FillRate.num * stats.TotalOrders = stats.FilledOrders * stats.FillRate.den
        ELSE stats.FillRate = Whole(0)

\* of two completed records one is filled and one is cancelled: the fill rate
\* is a half
C31_Witness ==
  /\ Len(completedOrders) = 2
  /\ WithStatus("filled") # {}
  /\ WithStatus("cancelled") # {}
  /\ GetOrderStats(pendingOrders, completedOrders).FillRate = Rat(1, 2)

----------------------------------------------------------------------------
(* Properties of Stop on a runner *)

\* C32: once Stop() has returned on the runner, having closed stopChan, the
\* loop of Run takes no further tick from priceChan, hands none to the
\* strategy and places no further order
C32_NoTickAfterStop ==
  [][stopChan[Runner] = "closed" =>
       /\ runPc' # "tick"
       /\ handed' = handed
       /\ broker' = broker]_vars

\* C33: however often Stop() is called on the runner, stopChan is closed at
\* most once, without the panic of a second close, and the strategy's Stop()
\* is called at most once
C33_StopClosesOnce ==
  /\ stopChan[Runner] # "panic"
  /\ strategyStops <= 1

\* C34: after a Stop() on the runner whose Run was launched has returned, the
\* runner is stopped or told to stop: its loop is not running with stopChan
\* open and the context alive
C34_StopReachesLaunchedRunner ==
  earlyStops > 0 => ~(isRunning[Runner] /\ stopChan[Runner] = "open" /\ ~ctxDone)

----------------------------------------------------------------------------
(* Properties of Start and Stop on the PriceFeed *)

\* no channel of a subscriber gains a tick in the step
NoBroadcast == \A ch \in Channels : Len(chans'[ch]) <= Len(chans[ch])

\* C35: whatever the sequence of Start and Stop on the feed, its stopChan is
\* never closed twice, and while the feed is stopped no subscriber is sent a
\* tick
C35_FeedStopClosesOnce ==
  [][/\ pf'.stopChan # "panic"
     /\ pf.stopChan = "closed" /\ ~pf.isRunning => NoBroadcast]_vars

----------------------------------------------------------------------------
(* Properties of the daily trade limit on a runner that holds a position *)

\* C36: once MaxDailyTrades trades of the runner were executed today and it
\* holds a position, no step sells, whatever the loss, and the position stays
\* as it is
C36_NoSellAfterDailyTrades ==
  [][TradesToday(trades, now) >= MaxDailyTrades /\ position.Quantity > 0 =>
       /\ ~Placed("sell")
       /\ position' = position]_vars

----------------------------------------------------------------------------
(* Properties of cancelOrder *)

\* the step is cancelOrder(orderID, "emergency_stop"), run by a goroutine of
\* CancelAllOrders
EmergencyCancels(orderID) ==
  orderID \in cancelTasks /\ orderID \notin cancelTasks'

\* what a call of cancelOrder(orderID, reason) does: a pending order leaves
\* the pending table for the end of the completed one, as "cancelled" with the
\* reason, after one brokerage call; for any other order nothing changes
Cancels(orderID, reason) ==
  IF orderID \in DOMAIN pendingOrders
  THEN /\ pendingOrders' = [i \in DOMAIN pendingOrders \ {orderID} |-> pendingOrders[i]]
       /\ completedOrders' =
            Append(completedOrders, [pendingOrders[orderID] EXCEPT
                                       !.Status = "cancelled", !.ErrorMsg = reason])
       /\ broker' = Append(broker, CancelRequest(orderID))
  ELSE /\ pendingOrders' = pendingOrders
       /\ completedOrders' = completedOrders
       /\ broker' = broker

\* C37: cancelOrder on a pending order moves it to the completed table as
\* "cancelled" with the reason of the cancellation as ErrorMsg, whatever the
\* brokerage answered; on an order no longer pending it makes no brokerage
\* call and changes nothing
C37_CancelOrderMovesPending ==
  [][\A orderID \in DOMAIN monitors :
       /\ EmergencyCancels(orderID) => Cancels(orderID, "emergency_stop")
       /\ MonitorTimesOut(orderID) => Cancels(orderID, "timeout")]_vars

\* the emergency stop found two orders pending: one was cancelled, the other
\* was filled before its cancelOrder ran, which asked the brokerage for nothing
C37_Witness ==
  /\ EmergencyStopSettled
  /\ \E cancelled \in emergency.pending, filled \in emergency.pending :
       /\ CancelIssued(cancelled) /\ ~CancelIssued(filled)
       /\ CompletedOf(completedOrders, cancelled)[1].ErrorMsg = "emergency_stop"
       /\ CompletedOf(completedOrders, filled)[1].Status = "filled"

----------------------------------------------------------------------------
(* Properties of the MomentumStrategy on the ticks of the PriceFeed *)

\* C38: given ticks of the PriceFeed only, whose Volume is 0, no call of
\* ProcessTick of the MomentumStrategy returns a Buy or a Sell
C38_NoMomentumTradeOnFeedTicks ==
  \A i \in 1..Len(stratOut.ms.signals) :
    stratOut.ms.signals[i].Type \notin {SignalBuy, SignalSell}

\* a tick of the feed found the momentum beyond the threshold, after a tick
\* that gave the average volume
C38_Witness ==
  /\ stratOut.ms.called
  /\ stratOut.ms.tick.Volume = FeedVolume
  /\ Len(ms.volumes) >= ms.lookbackPeriod
  /\ Gt(RAbs(ms.momentum), ms.momentumThreshold)
  /\ stratOut.ms.prices = ms.prices

====
